---- MODULE Spec2Model ----
(***************************************************************************)
(* Model of GitSubmoduleUpdater (src/src/index.ts): the .gitmodules        *)
(* parser, the commit and tag resolvers, the per-submodule evaluation      *)
(* loop of checkSubmodules, the summary/output variables and run().        *)
(* Strings are TLA+ strings; the JavaScript string methods the code uses   *)
(* (trim, startsWith, substring, split, includes, join) are operators that *)
(* work character by character.                                            *)
(***************************************************************************)
EXTENDS Integers, Sequences, FiniteSets, TLC

(***************************************************************************)
(* JavaScript string primitives                                            *)
(***************************************************************************)
Ch(s, i) == IF i >= 1 /\ i <= Len(s) THEN SubSeq(s, i, i) ELSE ""

IsWhitespace(c) == c \in {" ", "\t", "\r", "\n"}

RECURSIVE trimStart(_)
trimStart(s) ==
    IF Len(s) > 0 /\ IsWhitespace(Ch(s, 1))
    THEN trimStart(SubSeq(s, 2, Len(s)))
    ELSE s

RECURSIVE trimEnd(_)
trimEnd(s) ==
    IF Len(s) > 0 /\ IsWhitespace(Ch(s, Len(s)))
    THEN trimEnd(SubSeq(s, 1, Len(s) - 1))
    ELSE s

trim(s) == trimEnd(trimStart(s))

startsWith(s, p) == Len(s) >= Len(p) /\ SubSeq(s, 1, Len(p)) = p

endsWith(s, p) == Len(s) >= Len(p) /\ SubSeq(s, Len(s) - Len(p) + 1, Len(s)) = p

\* s.substring(n): the characters from 0-based index n to the end
substring(s, n) == SubSeq(s, n + 1, Len(s))

\* s.substring(0, n)
substring0(s, n) == SubSeq(s, 1, IF n < Len(s) THEN n ELSE Len(s))

includes(s, p) == \E i \in 1..(Len(s) - Len(p) + 1) : SubSeq(s, i, i + Len(p) - 1) = p

\* s.split(sep) for a one-character separator: the pieces between
\* consecutive occurrences of sep
split(s, sep) ==
    LET seps == { i \in 1..Len(s) : Ch(s, i) = sep }
        n == Cardinality(seps)
        pos(k) == IF k = 0 THEN 0
                  ELSE IF k = n + 1 THEN Len(s) + 1
                  ELSE CHOOSE i \in seps : Cardinality({ j \in seps : j <= i }) = k
    IN  [k \in 1..(n + 1) |-> SubSeq(s, pos(k - 1) + 1, pos(k) - 1)]

\* parts.join(sep)
RECURSIVE join(_, _)
join(parts, sep) ==
    IF Len(parts) = 0 THEN ""
    ELSE IF Len(parts) = 1 THEN parts[1]
    ELSE parts[1] \o sep \o join(Tail(parts), sep)

\* A JavaScript object property: absent (undefined) or present
has(obj, k) == k \in DOMAIN obj

\* obj.k is truthy: defined and not the empty string
truthy(obj, k) == has(obj, k) /\ obj[k] # ""

\* obj.k = v on an object literal
setField(obj, k, v) == [f \in (DOMAIN obj) \cup {k} |-> IF f = k THEN v ELSE obj[f]]

EmptyObject == [f \in {} |-> ""]

(***************************************************************************)
(* parseGitmodules                                                         *)
(***************************************************************************)
\* parseLine without line.trim(): the prefixes are tested on the raw line
parseLine_NoTrim(acc, line) ==
    IF startsWith(line, "[submodule ")
    THEN [cur |-> EmptyObject,
          out |-> IF truthy(acc.cur, "path") /\ truthy(acc.cur, "url")
                  THEN Append(acc.out, acc.cur) ELSE acc.out]
    ELSE IF startsWith(line, "path = ")
    THEN [acc EXCEPT !.cur = setField(acc.cur, "path", trim(substring(line, 7)))]
    ELSE IF startsWith(line, "url = ")
    THEN [acc EXCEPT !.cur = setField(acc.cur, "url", trim(substring(line, 6)))]
    ELSE IF startsWith(line, "branch = ")
    THEN [acc EXCEPT !.cur = setField(acc.cur, "branch", trim(substring(line, 9)))]
    ELSE acc

\* the body of the for loop: one line, given the accumulator
\* acc = [cur |-> currentSubmodule, out |-> submodules]
parseLine(acc, line) ==
    LET trimmedLine == trim(line) IN
    IF startsWith(trimmedLine, "[submodule ")
    THEN [cur |-> EmptyObject,
          out |-> IF truthy(acc.cur, "path") /\ truthy(acc.cur, "url")
                  THEN Append(acc.out, acc.cur) ELSE acc.out]
    ELSE IF startsWith(trimmedLine, "path = ")
    THEN [acc EXCEPT !.cur = setField(acc.cur, "path", trim(substring(trimmedLine, 7)))]
    ELSE IF startsWith(trimmedLine, "url = ")
    THEN [acc EXCEPT !.cur = setField(acc.cur, "url", trim(substring(trimmedLine, 6)))]
    ELSE IF startsWith(trimmedLine, "branch = ")
    THEN [acc EXCEPT !.cur = setField(acc.cur, "branch", trim(substring(trimmedLine, 9)))]
    ELSE acc

RECURSIVE parseLines(_, _, _)
parseLines(lines, i, acc) ==
    IF i > Len(lines) THEN acc
    ELSE parseLines(lines, i + 1, parseLine(acc, lines[i]))

parseGitmodules(content) ==
    LET lines == split(content, "\n")
        acc == parseLines(lines, 1, [cur |-> EmptyObject, out |-> <<>>])
    IN  IF truthy(acc.cur, "path") /\ truthy(acc.cur, "url")
        THEN Append(acc.out, acc.cur)
        ELSE acc.out

(***************************************************************************)
(* getTagsForCommit                                                        *)
(***************************************************************************)
isHex(c) == c \in {"a", "b", "c", "d", "e", "f",
                   "0", "1", "2", "3", "4", "5", "6", "7", "8", "9"}

isDigit(c) == c \in {"0", "1", "2", "3", "4", "5", "6", "7", "8", "9"}

digitVal(c) ==
    CASE c = "0" -> 0 [] c = "1" -> 1 [] c = "2" -> 2 [] c = "3" -> 3
      [] c = "4" -> 4 [] c = "5" -> 5 [] c = "6" -> 6 [] c = "7" -> 7
      [] c = "8" -> 8 [] c = "9" -> 9

\* first index >= i of s whose character is not a hex digit ([a-f0-9]+)
RECURSIVE hexEnd(_, _)
hexEnd(s, i) == IF i <= Len(s) /\ isHex(Ch(s, i)) THEN hexEnd(s, i + 1) ELSE i

\* first index >= i of s whose character is not whitespace (\s+)
RECURSIVE wsEnd(_, _)
wsEnd(s, i) == IF i <= Len(s) /\ IsWhitespace(Ch(s, i)) THEN wsEnd(s, i + 1) ELSE i

\* first index >= i of s whose character is not a decimal digit (\d+)
RECURSIVE digitsEnd(_, _)
digitsEnd(s, i) == IF i <= Len(s) /\ isDigit(Ch(s, i)) THEN digitsEnd(s, i + 1) ELSE i

\* parseInt of a string of decimal digits
RECURSIVE parseInt(_)
parseInt(s) ==
    IF Len(s) = 0 THEN 0
    ELSE 10 * parseInt(SubSeq(s, 1, Len(s) - 1)) + digitVal(Ch(s, Len(s)))

\* '.' of a regular expression: any character but a line terminator
noLineTerminator(s) == \A i \in 1..Len(s) : Ch(s, i) \notin {"\n", "\r"}

\* line.match(/^([a-f0-9]+)\s+refs\/tags\/(.+)$/): <<>> is null,
\* otherwise <<match[1], match[2]>>
matchTagLine(line) ==
    LET h == hexEnd(line, 1)
        w == wsEnd(line, h)
        rest == SubSeq(line, w, Len(line))
        name == substring(rest, 10)
    IN  IF /\ h > 1
           /\ w > h
           /\ startsWith(rest, "refs/tags/")
           /\ Len(name) > 0
           /\ noLineTerminator(name)
        THEN <<SubSeq(line, 1, h - 1), name>>
        ELSE <<>>

\* s.match(/^v?(\d+)\.(\d+)\.(\d+)/) followed by parseInt of the three
\* groups: <<>> is null, otherwise <<major, minor, patch>>
versionMatch(s) ==
    LET i1 == IF startsWith(s, "v") THEN 2 ELSE 1
        e1 == digitsEnd(s, i1)
        e2 == digitsEnd(s, e1 + 1)
        e3 == digitsEnd(s, e2 + 1)
    IN  IF /\ e1 > i1 /\ Ch(s, e1) = "."
           /\ e2 > e1 + 1 /\ Ch(s, e2) = "."
           /\ e3 > e2 + 1
        THEN <<parseInt(SubSeq(s, i1, e1 - 1)),
               parseInt(SubSeq(s, e1 + 1, e2 - 1)),
               parseInt(SubSeq(s, e2 + 1, e3 - 1))>>
        ELSE <<>>

\* collation order of the characters that occur in tag names
\* (punctuation before digits before letters)
Collation == "-./0123456789abcdefghijklmnopqrstuvwxyz"

collationRank(c) == CHOOSE i \in 1..Len(Collation) : Ch(Collation, i) = c

\* x.localeCompare(y): negative, zero or positive
RECURSIVE localeCompare(_, _)
localeCompare(x, y) ==
    IF Len(x) = 0 /\ Len(y) = 0 THEN 0
    ELSE IF Len(x) = 0 THEN -1
    ELSE IF Len(y) = 0 THEN 1
    ELSE IF Ch(x, 1) = Ch(y, 1) THEN localeCompare(SubSeq(x, 2, Len(x)), SubSeq(y, 2, Len(y)))
    ELSE IF collationRank(Ch(x, 1)) < collationRank(Ch(y, 1)) THEN -1 ELSE 1

\* compareTags with the fallback the other way round: a.localeCompare(b)
compareTags_FallbackAscending(a, b) ==
    LET aMatch == versionMatch(a)
        bMatch == versionMatch(b)
    IN  IF aMatch # <<>> /\ bMatch # <<>>
        THEN IF aMatch[1] # bMatch[1] THEN bMatch[1] - aMatch[1]
             ELSE IF aMatch[2] # bMatch[2] THEN bMatch[2] - aMatch[2]
             ELSE bMatch[3] - aMatch[3]
        ELSE localeCompare(a, b)

\* compareTags without the numeric branch: always b.localeCompare(a)
compareTags_Lexicographic(a, b) == localeCompare(b, a)

\* compareTags comparing the major numbers only when both are version tags
compareTags_MajorOnly(a, b) ==
    LET aMatch == versionMatch(a)
        bMatch == versionMatch(b)
    IN  IF aMatch # <<>> /\ bMatch # <<>>
        THEN bMatch[1] - aMatch[1]
        ELSE localeCompare(b, a)

\* the comparator handed to tags.sort
compareTags(a, b) ==
    LET aMatch == versionMatch(a)
        bMatch == versionMatch(b)
    IN  IF aMatch # <<>> /\ bMatch # <<>>
        THEN IF aMatch[1] # bMatch[1] THEN bMatch[1] - aMatch[1]
             ELSE IF aMatch[2] # bMatch[2] THEN bMatch[2] - aMatch[2]
             ELSE bMatch[3] - aMatch[3]
        ELSE localeCompare(b, a)

\* Array.prototype.sort: a stable insertion sort by compareTags
RECURSIVE insertSorted(_, _)
insertSorted(sorted, x) ==
    IF Len(sorted) = 0 THEN <<x>>
    ELSE IF compareTags(sorted[Len(sorted)], x) > 0
    THEN Append(insertSorted(SubSeq(sorted, 1, Len(sorted) - 1), x), sorted[Len(sorted)])
    ELSE Append(sorted, x)

RECURSIVE sortTags(_, _, _)
sortTags(tags, i, acc) ==
    IF i > Len(tags) THEN acc
    ELSE sortTags(tags, i + 1, insertSorted(acc, tags[i]))

\* lines.some(l => l.includes(`refs/tags/${tagName}^{}`))
hasDerefVersion(lines, tagName) ==
    \E k \in 1..Len(lines) : includes(lines[k], "refs/tags/" \o tagName \o "^{}")

\* the body of the for loop over the lines of the tag listing
collectTag(lines, line, commitSha, tags) ==
    LET match == matchTagLine(line) IN
    IF match = <<>> THEN tags
    ELSE LET tagCommit == match[1]
             tagName == match[2]
             isDeref == endsWith(tagName, "^{}")
             actualTagName == IF isDeref THEN substring0(tagName, Len(tagName) - 3) ELSE tagName
             useThis == isDeref \/ ~hasDerefVersion(lines, tagName)
         IN  IF useThis /\ tagCommit = commitSha THEN Append(tags, actualTagName) ELSE tags

RECURSIVE collectTags(_, _, _, _)
collectTags(lines, i, commitSha, tags) ==
    IF i > Len(lines) THEN tags
    ELSE collectTags(lines, i + 1, commitSha, collectTag(lines, lines[i], commitSha, tags))

\* response is what git.raw(['ls-remote', '--tags', repoUrl]) does:
\* [throws |-> TRUE] or [throws |-> FALSE, out |-> text]
getTagsForCommit(response, commitSha) ==
    IF response.throws THEN <<>>
    ELSE LET lines == SelectSeq(split(trim(response.out), "\n"), LAMBDA l : trim(l) # "")
             tags == collectTags(lines, 1, commitSha, <<>>)
         IN  sortTags(tags, 1, <<>>)

(***************************************************************************)
(* Commit resolvers, record construction, summary and task result          *)
(***************************************************************************)
\* Number.prototype.toString for a natural number
RECURSIVE toString(_)
toString(n) ==
    IF n < 10 THEN Ch("0123456789", n + 1)
    ELSE toString(n \div 10) \o Ch("0123456789", (n % 10) + 1)

\* path.basename(p): trailing separators dropped, then what follows the
\* last separator
RECURSIVE stripTrailingSlashes(_)
stripTrailingSlashes(p) ==
    IF Len(p) > 1 /\ Ch(p, Len(p)) = "/"
    THEN stripTrailingSlashes(SubSeq(p, 1, Len(p) - 1))
    ELSE p

basename(p) ==
    LET q == stripTrailingSlashes(p)
        slashes == { i \in 1..Len(q) : Ch(q, i) = "/" }
        last == IF slashes = {} THEN 0 ELSE CHOOSE i \in slashes : \A j \in slashes : j <= i
    IN  IF q = "/" THEN q ELSE SubSeq(q, last + 1, Len(q))

\* result.match(/^\d+ commit ([a-f0-9]+)\t/): "" is no match, otherwise match[1]
\* matchLsTree accepting an entry of any type: /^\d+ \w+ ([a-f0-9]+)\t/
matchLsTree_AnyType(result) ==
    LET d == digitsEnd(result, 1)
        t == CHOOSE k \in (d + 1)..(Len(result) + 1) :
                 /\ k > Len(result) \/ Ch(result, k) = " "
                 /\ \A j \in (d + 1)..(k - 1) : Ch(result, j) # " "
        h == hexEnd(result, t + 1)
    IN  IF /\ d > 1
           /\ Ch(result, d) = " "
           /\ t > d + 1
           /\ h > t + 1
           /\ Ch(result, h) = "\t"
        THEN SubSeq(result, t + 1, h - 1)
        ELSE ""

matchLsTree(result) ==
    LET d == digitsEnd(result, 1)
        h == hexEnd(result, d + 8)
    IN  IF /\ d > 1
           /\ SubSeq(result, d, d + 7) = " commit "
           /\ h > d + 8
           /\ Ch(result, h) = "\t"
        THEN SubSeq(result, d + 8, h - 1)
        ELSE ""

\* response is what git.raw(['ls-tree', 'HEAD', submodulePath]) does:
\* [throws |-> TRUE, error |-> text of the thrown value] or
\* [throws |-> FALSE, out |-> text].  The value is [ok |-> TRUE, sha |-> ..]
\* on return and [ok |-> FALSE, message |-> ..] on throw.
getCurrentSubmoduleCommit(submodulePath, response) ==
    LET prefix == "Failed to get current submodule commit for " \o submodulePath \o ": " IN
    IF response.throws
    THEN [ok |-> FALSE, message |-> prefix \o response.error]
    ELSE LET sha == matchLsTree(response.out) IN
         IF sha # ""
         THEN [ok |-> TRUE, sha |-> sha]
         ELSE [ok |-> FALSE,
               message |-> prefix \o "Error: Could not parse submodule commit from ls-tree output"]

\* lines[0].match(/^([a-f0-9]+)\s+/): "" is no match, otherwise match[1]
matchLsRemote(line) ==
    LET h == hexEnd(line, 1) IN
    IF h > 1 /\ IsWhitespace(Ch(line, h)) THEN SubSeq(line, 1, h - 1) ELSE ""

\* getLatestRemoteCommit reading the last line of the output
getLatestRemoteCommit_LastLine(repoUrl, branch, response) ==
    LET prefix == "Failed to get latest remote commit from " \o repoUrl
                  \o " (branch: " \o branch \o "): "
    IN
    IF response.throws
    THEN [ok |-> FALSE, message |-> prefix \o response.error]
    ELSE LET lines == split(trim(response.out), "\n")
             sha == IF Len(lines) > 0 /\ lines[Len(lines)] # ""
                    THEN matchLsRemote(lines[Len(lines)]) ELSE ""
         IN  IF sha # ""
             THEN [ok |-> TRUE, sha |-> sha]
             ELSE [ok |-> FALSE,
                   message |-> prefix \o "Error: Could not find branch '" \o branch
                               \o "' in remote repository"]

\* response is what git.raw(['ls-remote', repoUrl, `refs/heads/${branch}`]) does
getLatestRemoteCommit(repoUrl, branch, response) ==
    LET prefix == "Failed to get latest remote commit from " \o repoUrl
                  \o " (branch: " \o branch \o "): "
    IN
    IF response.throws
    THEN [ok |-> FALSE, message |-> prefix \o response.error]
    ELSE LET lines == split(trim(response.out), "\n")
             sha == IF Len(lines) > 0 /\ lines[1] # "" THEN matchLsRemote(lines[1]) ELSE ""
         IN  IF sha # ""
             THEN [ok |-> TRUE, sha |-> sha]
             ELSE [ok |-> FALSE,
                   message |-> prefix \o "Error: Could not find branch '" \o branch
                               \o "' in remote repository"]

ShortShaLen == 8
MaxDisplayTags == 3

\* formatCommitWithTags counting every tag in the "more" indicator
formatCommitWithTags_CountsAll(commitSha, tags) ==
    LET shortSha == substring0(commitSha, ShortShaLen) IN
    IF Len(tags) = 0 THEN shortSha
    ELSE LET displayTags == SubSeq(tags, 1, IF Len(tags) < MaxDisplayTags THEN Len(tags) ELSE MaxDisplayTags)
             tagsString == join(displayTags, ", ")
             moreTagsIndicator == IF Len(tags) > MaxDisplayTags
                                  THEN " (+" \o toString(Len(tags)) \o " more)"
                                  ELSE ""
         IN  shortSha \o " (" \o tagsString \o moreTagsIndicator \o ")"

formatCommitWithTags(commitSha, tags) ==
    LET shortSha == substring0(commitSha, ShortShaLen) IN
    IF Len(tags) = 0 THEN shortSha
    ELSE LET displayTags == SubSeq(tags, 1, IF Len(tags) < MaxDisplayTags THEN Len(tags) ELSE MaxDisplayTags)
             tagsString == join(displayTags, ", ")
             moreTagsIndicator == IF Len(tags) > MaxDisplayTags
                                  THEN " (+" \o toString(Len(tags) - MaxDisplayTags) \o " more)"
                                  ELSE ""
         IN  shortSha \o " (" \o tagsString \o moreTagsIndicator \o ")"

\* submodule.branch || this.defaultBranch
branchToCheck(submodule, defaultBranch) ==
    IF truthy(submodule, "branch") THEN submodule.branch ELSE defaultBranch

\* checkSubmodule comparing the two displays, tags included
checkSubmodule_CompareDisplays(submodule, defaultBranch, currentCommit, latestCommit, currentCommitTags, latestCommitTags) ==
    [name |-> basename(submodule.path),
     path |-> submodule.path,
     url |-> submodule.url,
     branch |-> branchToCheck(submodule, defaultBranch),
     currentCommit |-> formatCommitWithTags(currentCommit, currentCommitTags),
     latestCommit |-> formatCommitWithTags(latestCommit, latestCommitTags),
     needsUpdate |-> formatCommitWithTags(currentCommit, currentCommitTags)
                        # formatCommitWithTags(latestCommit, latestCommitTags)]

\* checkSubmodule comparing the 8-character short shas
checkSubmodule_ShortShaCompare(submodule, defaultBranch, currentCommit, latestCommit, currentCommitTags, latestCommitTags) ==
    [name |-> basename(submodule.path),
     path |-> submodule.path,
     url |-> submodule.url,
     branch |-> branchToCheck(submodule, defaultBranch),
     currentCommit |-> formatCommitWithTags(currentCommit, currentCommitTags),
     latestCommit |-> formatCommitWithTags(latestCommit, latestCommitTags),
     needsUpdate |-> substring0(currentCommit, ShortShaLen) # substring0(latestCommit, ShortShaLen)]

\* the object checkSubmodule returns
checkSubmodule(submodule, defaultBranch, currentCommit, latestCommit, currentCommitTags, latestCommitTags) ==
    [name |-> basename(submodule.path),
     path |-> submodule.path,
     url |-> submodule.url,
     branch |-> branchToCheck(submodule, defaultBranch),
     currentCommit |-> formatCommitWithTags(currentCommit, currentCommitTags),
     latestCommit |-> formatCommitWithTags(latestCommit, latestCommitTags),
     needsUpdate |-> currentCommit # latestCommit]

\* errorResult flagging the failed submodule as needing update
errorResult_NeedsUpdate(submodule, message) ==
    LET base == [name |-> submodule.path,
                 path |-> submodule.path,
                 url |-> submodule.url,
                 currentCommit |-> "unknown",
                 latestCommit |-> "unknown",
                 needsUpdate |-> TRUE,
                 error |-> message]
    IN  IF has(submodule, "branch") THEN setField(base, "branch", submodule.branch) ELSE base

\* the object the catch block of checkSubmodules builds
errorResult(submodule, message) ==
    LET base == [name |-> submodule.path,
                 path |-> submodule.path,
                 url |-> submodule.url,
                 currentCommit |-> "unknown",
                 latestCommit |-> "unknown",
                 needsUpdate |-> FALSE,
                 error |-> message]
    IN  IF has(submodule, "branch") THEN setField(base, "branch", submodule.branch) ELSE base

isNeedsUpdate(r) == r.needsUpdate
isError(r) == truthy(r, "error")
isUpToDate(r) == ~r.needsUpdate /\ ~truthy(r, "error")

\* results.filter(..).length for the three filters
countNeedsUpdate(results) == Len(SelectSeq(results, isNeedsUpdate))
countErrors(results) == Len(SelectSeq(results, isError))
countUpToDate(results) == Len(SelectSeq(results, isUpToDate))

\* results.filter(r => r.needsUpdate).map(r => r.path)
needsUpdatePaths(results) ==
    LET kept == SelectSeq(results, isNeedsUpdate) IN
    [i \in 1..Len(kept) |-> kept[i].path]

\* printSummary counting every record that does not need update as up to date
printSummary_ErrorsUpToDate(results) ==
    [total |-> Len(results),
     upToDate |-> Len(SelectSeq(results, LAMBDA r : ~r.needsUpdate)),
     needsUpdate |-> countNeedsUpdate(results),
     errors |-> countErrors(results)]

\* the four counts printSummary prints
printSummary(results) ==
    [total |-> Len(results),
     upToDate |-> countUpToDate(results),
     needsUpdate |-> countNeedsUpdate(results),
     errors |-> countErrors(results)]

\* the variables setOutputVariables sets
setOutputVariables(results) ==
    [SubmodulesTotal |-> toString(Len(results)),
     SubmodulesUpToDate |-> toString(countUpToDate(results)),
     SubmodulesNeedingUpdate |-> toString(countNeedsUpdate(results)),
     SubmodulesNeedingUpdateList |-> join(needsUpdatePaths(results), ",")]

\* runResult failing on failOnOutdated whatever the number of outdated submodules
runResult_FailOnAnyCount(results, failOnOutdatedInput) ==
    IF failOnOutdatedInput /\ countNeedsUpdate(results) >= 0 THEN "Failed"
    ELSE IF countErrors(results) > 0 THEN "SucceededWithIssues"
    ELSE "Succeeded"

\* runResult looking at the errors before the outdated submodules
runResult_ErrorsFirst(results, failOnOutdatedInput) ==
    IF countErrors(results) > 0 THEN "SucceededWithIssues"
    ELSE IF failOnOutdatedInput /\ countNeedsUpdate(results) > 0 THEN "Failed"
    ELSE "Succeeded"

\* the result run() sets once checkSubmodules has returned results
runResult(results, failOnOutdatedInput) ==
    IF failOnOutdatedInput /\ countNeedsUpdate(results) > 0 THEN "Failed"
    ELSE IF countErrors(results) > 0 THEN "SucceededWithIssues"
    ELSE "Succeeded"

(***************************************************************************)
(* State                                                                   *)
(***************************************************************************)
VARIABLES
    content,        \* text of the .gitmodules file (fs.readFileSync)
    pPc,            \* parser harness: "init", "parsed", "variant"
    parsed,         \* parseGitmodules(content)
    variantKind,    \* which rewriting of content was parsed second
    variantDecl,    \* the declaration of the block appended by AppendBlock
    variantParsed,  \* parseGitmodules of the rewritten content
    remoteTags,     \* tag refs of the remote, in the order it enumerates them
    tPc,            \* tag harness: "init", "done", "failed"
    queriedSha,     \* commitSha argument of getTagsForCommit
    tagsResult,     \* what getTagsForCommit returned
    fSha,           \* commitSha argument of formatCommitWithTags
    fTags,          \* tags argument of formatCommitWithTags
    fPc,            \* display harness: "off", "init", "done"
    display,        \* what formatCommitWithTags returned
    environment,    \* AzureDevOpsApi.environment and the task library token
    addPullRequestComments, \* the task input addPullRequestComments
    commentContent, \* argument of addPullRequestCommentIfNotExists
    threads,        \* the pull request's threads on the server, each a list of comment contents
    prPc,           \* addPullRequestCommentIfNotExists: "off", "idle", "listing", "posting"
    calls,          \* number of calls of addPullRequestCommentIfNotExists started
    requests,       \* the HTTP requests sent so far, in order
    returns,        \* how each finished call ended: the value returned, or the error thrown
    logs,           \* what the catch block logged, one entry per failed call
    resolveCall,    \* resolver harness: the resolver called, its arguments, git's answer
    resolvePc,      \* resolver harness: "off", "init", "done"
    resolved,       \* what the resolver returned or threw
    callerPc,       \* overlapping calls: where each caller is in addPullRequestCommentIfNotExists
    callerRequest,  \* overlapping calls: each caller's request in flight (index in requests)
    callerReturned, \* overlapping calls: what each call returned
    fileState,      \* the .gitmodules file: "missing", "readable", "unreadable"
    failOnOutdated, \* task input failOnOutdated
    defaultBranch,  \* GitSubmoduleChecker.defaultBranch
    pc,             \* where run() is: "off", "start", the pending git query, "done"
    submodules,     \* the declarations parseGitmodules returned
    index,          \* 1-based position of the for loop of checkSubmodules
    frame,          \* locals of the checkSubmodule call in progress
    results,        \* the results array of checkSubmodules
    facts,          \* per submodule, what each git query was answered with
    queries,        \* the git queries issued so far, in order
    summary,        \* the counts printSummary printed
    outputs,        \* the pipeline variables set with tl.setVariable
    taskResult      \* the result set with tl.setResult, "" while unset

parseVars == <<pPc, parsed, variantKind, variantDecl, variantParsed>>

tagVars == <<remoteTags, tPc, queriedSha, tagsResult>>

runVars == <<fileState, failOnOutdated, defaultBranch, pc, submodules, index, frame,
             results, facts, queries, summary, outputs, taskResult>>

formatVars == <<fSha, fTags, fPc, display>>

prVars == <<environment, addPullRequestComments, commentContent, threads, prPc, calls, requests, returns, logs>>

resolveVars == <<resolveCall, resolvePc, resolved>>

overlapVars == <<callerPc, callerRequest, callerReturned>>

vars == <<content, parseVars, tagVars, runVars, formatVars, prVars, resolveVars, overlapVars>>

(***************************************************************************)
(* Bounds and input alphabets                                              *)
(***************************************************************************)
MaxLines == 4
MaxTags == 3

\* commit ids: ShaA and ShaB agree on their first 8 characters
ShaA == "a1b2c3d4e5"
ShaB == "a1b2c3d4f6"
\* id of an annotated tag object
ShaObj == "0b1ec70b1e"

TagNames == { "v1.2.0", "v1.10.0", "v1.9.5", "1.10.0-rc1", "refs/tags/v1.2.0", "v1.5" }

\* a tag ref of the remote: lightweight (the ref holds the commit id) or
\* annotated (the ref holds ShaObj and peels to the commit id)
TagTargets ==
    { [kind |-> "lightweight", commit |-> ShaA],
      [kind |-> "lightweight", commit |-> ShaB],
      [kind |-> "annotated", commit |-> ShaA] }

TagRefs == { [name |-> n, kind |-> t.kind, commit |-> t.commit] : n \in TagNames, t \in TagTargets }

TagListings ==
    { refs \in UNION { [1..n -> TagRefs] : n \in 0..MaxTags } :
        \A i, j \in 1..Len(refs) : i # j => refs[i].name # refs[j].name }

\* raw lines a .gitmodules file is made of in the parser specification
LineSet ==
    { "[submodule \"a\"]",
      "\tpath = p",
      "  path = q  ",
      "\turl = u",
      "\tbranch = dev",
      "[remote \"x\"]" }

UnknownKeyLines == { "\tignore = all", "paths = z" }

\* <<leading, trailing>> whitespace added to a line
Pads == { <<"", " ">>, <<" \t", "">>, <<"\t", "\t\r">> }

Texts == { join(ls, "\n") : ls \in UNION { [1..n -> LineSet] : n \in 0..MaxLines } }

(***************************************************************************)
(* Parser specification: parse a text, then parse a rewriting of it        *)
(***************************************************************************)
keyOf(line) ==
    LET t == trim(line) IN
    IF startsWith(t, "path = ") THEN "path"
    ELSE IF startsWith(t, "url = ") THEN "url"
    ELSE IF startsWith(t, "branch = ") THEN "branch"
    ELSE "none"

replaceAt(seq, i, v) == [seq EXCEPT ![i] = v]

insertAfter(seq, i, v) == SubSeq(seq, 1, i) \o <<v>> \o SubSeq(seq, i + 1, Len(seq))

swapAt(seq, i) == [seq EXCEPT ![i] = seq[i + 1], ![i + 1] = seq[i]]

ParseIdle ==
    /\ pPc = "off"
    /\ parsed = <<>>
    /\ variantKind = "none"
    /\ variantDecl = EmptyObject
    /\ variantParsed = <<>>

TagIdle ==
    /\ remoteTags = <<>>
    /\ tPc = "off"
    /\ queriedSha = ""
    /\ tagsResult = <<>>

EmptyFrame == [currentCommit |-> "", latestCommit |-> "", currentCommitTags |-> <<>>]

RunIdle ==
    /\ fileState = "missing"
    /\ failOnOutdated = FALSE
    /\ defaultBranch = "main"
    /\ pc = "off"
    /\ submodules = <<>>
    /\ index = 0
    /\ frame = EmptyFrame
    /\ results = <<>>
    /\ facts = <<>>
    /\ queries = <<>>
    /\ summary = EmptyObject
    /\ outputs = EmptyObject
    /\ taskResult = ""

ResolveIdle ==
    /\ resolveCall = EmptyObject
    /\ resolvePc = "off"
    /\ resolved = EmptyObject

OverlapIdle ==
    /\ callerPc = <<>>
    /\ callerRequest = <<>>
    /\ callerReturned = <<>>

PrIdle ==
    /\ environment = EmptyObject
    /\ addPullRequestComments = FALSE
    /\ commentContent = ""
    /\ threads = <<>>
    /\ prPc = "off"
    /\ calls = 0
    /\ requests = <<>>
    /\ returns = <<>>
    /\ logs = <<>>

FormatIdle ==
    /\ fSha = ""
    /\ fTags = <<>>
    /\ fPc = "off"
    /\ display = ""

ParseInit ==
    /\ TagIdle
    /\ RunIdle
    /\ FormatIdle
    /\ PrIdle
    /\ ResolveIdle
    /\ OverlapIdle
    /\ content \in Texts
    /\ pPc = "init"
    /\ parsed = <<>>
    /\ variantKind = "none"
    /\ variantDecl = EmptyObject
    /\ variantParsed = <<>>

Parse ==
    /\ pPc = "init"
    /\ parsed' = parseGitmodules(content)
    /\ pPc' = "parsed"
    /\ UNCHANGED <<content, variantKind, variantDecl, variantParsed, tagVars, runVars, formatVars, prVars, resolveVars, overlapVars>>

AddWhitespace ==
    /\ pPc = "parsed"
    /\ LET lines == split(content, "\n") IN
       \E i \in 1..Len(lines), pad \in Pads :
          variantParsed' = parseGitmodules(join(replaceAt(lines, i, pad[1] \o lines[i] \o pad[2]), "\n"))
    /\ variantKind' = "whitespace"
    /\ pPc' = "variant"
    /\ UNCHANGED <<content, parsed, variantDecl, tagVars, runVars, formatVars, prVars, resolveVars, overlapVars>>

PermuteKeyLines ==
    /\ pPc = "parsed"
    /\ LET lines == split(content, "\n") IN
       \E i \in 1..(Len(lines) - 1) :
          /\ keyOf(lines[i]) # "none"
          /\ keyOf(lines[i + 1]) # "none"
          /\ keyOf(lines[i]) # keyOf(lines[i + 1])
          /\ variantParsed' = parseGitmodules(join(swapAt(lines, i), "\n"))
    /\ variantKind' = "permute"
    /\ pPc' = "variant"
    /\ UNCHANGED <<content, parsed, variantDecl, tagVars, runVars, formatVars, prVars, resolveVars, overlapVars>>

InsertUnknownKey ==
    /\ pPc = "parsed"
    /\ LET lines == split(content, "\n") IN
       \E i \in 0..Len(lines), u \in UnknownKeyLines :
          variantParsed' = parseGitmodules(join(insertAfter(lines, i, u), "\n"))
    /\ variantKind' = "unknown"
    /\ pPc' = "variant"
    /\ UNCHANGED <<content, parsed, variantDecl, tagVars, runVars, formatVars, prVars, resolveVars, overlapVars>>

AppendBlock ==
    /\ pPc = "parsed"
    /\ \E p \in {"p", "q"}, withBranch \in BOOLEAN :
          LET block == IF withBranch
                       THEN "[submodule \"z\"]\n\tbranch = rel\n\turl = u2\n\tpath = " \o p
                       ELSE "[submodule \"z\"]\n\tpath = " \o p \o "\n\turl = u2"
              decl == IF withBranch
                      THEN [path |-> p, url |-> "u2", branch |-> "rel"]
                      ELSE [path |-> p, url |-> "u2"]
          IN  /\ variantParsed' = parseGitmodules(content \o "\n" \o block)
              /\ variantDecl' = decl
    /\ variantKind' = "append"
    /\ pPc' = "variant"
    /\ UNCHANGED <<content, parsed, tagVars, runVars, formatVars, prVars, resolveVars, overlapVars>>

ParseNext ==
    \/ Parse
    \/ AddWhitespace
    \/ PermuteKeyLines
    \/ InsertUnknownKey
    \/ AppendBlock

SpecParse == ParseInit /\ [][ParseNext]_vars

(***************************************************************************)
(* Tag specification: one getTagsForCommit call against a remote           *)
(***************************************************************************)
\* output of git ls-remote --tags: one line per ref, an annotated tag
\* followed by its peeled ^{} line
RECURSIVE lsRemoteTags(_)
lsRemoteTags(refs) ==
    IF Len(refs) = 0 THEN ""
    ELSE LET r == refs[1] IN
         (IF r.kind = "annotated"
          THEN ShaObj \o "\trefs/tags/" \o r.name \o "\n"
               \o r.commit \o "\trefs/tags/" \o r.name \o "^{}\n"
          ELSE r.commit \o "\trefs/tags/" \o r.name \o "\n")
         \o lsRemoteTags(Tail(refs))

TagInit ==
    /\ ParseIdle
    /\ RunIdle
    /\ FormatIdle
    /\ PrIdle
    /\ ResolveIdle
    /\ OverlapIdle
    /\ content = ""
    /\ remoteTags \in TagListings
    /\ tPc = "init"
    /\ queriedSha = ""
    /\ tagsResult = <<>>

GetTags ==
    /\ tPc = "init"
    /\ \E sha \in {ShaA, ShaB, ShaObj} :
          /\ queriedSha' = sha
          /\ tagsResult' = getTagsForCommit([throws |-> FALSE, out |-> lsRemoteTags(remoteTags)], sha)
    /\ tPc' = "done"
    /\ UNCHANGED <<remoteTags, content, parseVars, runVars, formatVars, prVars, resolveVars, overlapVars>>

GetTagsThrows ==
    /\ tPc = "init"
    /\ \E sha \in {ShaA, ShaB, ShaObj} :
          /\ queriedSha' = sha
          /\ tagsResult' = getTagsForCommit([throws |-> TRUE], sha)
    /\ tPc' = "failed"
    /\ UNCHANGED <<remoteTags, content, parseVars, runVars, formatVars, prVars, resolveVars, overlapVars>>

TagNext ==
    \/ GetTags
    \/ GetTagsThrows

SpecTags == TagInit /\ [][TagNext]_vars

(***************************************************************************)
(* Properties of getTagsForCommit                                          *)
(***************************************************************************)
occurrences(seq, x) == Cardinality({ i \in 1..Len(seq) : seq[i] = x })

\* C9: a tag with a raw entry (tag-object id) and a ^{} entry (commit id) is
\* reported exactly once for the commit id and never for the tag-object id; a
\* lightweight tag is reported for its own id, and only for it.
C9_TagDereferencing ==
    tPc = "done" =>
        \A i \in 1..Len(remoteTags) :
            LET r == remoteTags[i] IN
            IF r.kind = "annotated"
            THEN /\ queriedSha = r.commit => occurrences(tagsResult, r.name) = 1
                 /\ queriedSha = ShaObj => occurrences(tagsResult, r.name) = 0
            ELSE occurrences(tagsResult, r.name) = (IF queriedSha = r.commit THEN 1 ELSE 0)

\* <<major, minor, patch>> x is not below y
versionGreaterOrEqual(x, y) ==
    \/ x[1] > y[1]
    \/ x[1] = y[1] /\ x[2] > y[2]
    \/ x[1] = y[1] /\ x[2] = y[2] /\ x[3] >= y[3]

\* C10: when every returned tag matches v?MAJOR.MINOR.PATCH, the returned
\* list is in descending (major, minor, patch) order, compared as numbers;
\* what follows PATCH plays no part.
C10_VersionSortDescending ==
    (tPc = "done" /\ \A i \in 1..Len(tagsResult) : versionMatch(tagsResult[i]) # <<>>) =>
        \A i, j \in 1..Len(tagsResult) :
            i < j => versionGreaterOrEqual(versionMatch(tagsResult[i]), versionMatch(tagsResult[j]))

C10_Witness ==
    /\ tPc = "done"
    /\ remoteTags = << [name |-> "v1.2.0", kind |-> "lightweight", commit |-> ShaA],
                       [name |-> "v1.10.0", kind |-> "annotated", commit |-> ShaA],
                       [name |-> "v1.9.5", kind |-> "lightweight", commit |-> ShaA] >>
    /\ queriedSha = ShaA
    /\ tagsResult = <<"v1.10.0", "v1.9.5", "v1.2.0">>

\* x sorts before y as a string: at the first position where they differ x
\* has ended or has the lower character
lexLess(x, y) ==
    \E k \in 1..Len(y) :
        /\ k - 1 <= Len(x)
        /\ SubSeq(x, 1, k - 1) = SubSeq(y, 1, k - 1)
        /\ \/ k > Len(x)
           \/ collationRank(Ch(x, k)) < collationRank(Ch(y, k))

isVersionTag(t) == versionMatch(t) # <<>>

versionGreater(x, y) == versionGreaterOrEqual(x, y) /\ x # y

\* the comparator on every pair of tag names of the listings: descending
\* (major, minor, patch) when both are version tags, reverse string order of
\* the whole names otherwise
comparatorPairwise ==
    \A a, b \in TagNames :
        LET c == compareTags(a, b)
        IN  IF isVersionTag(a) /\ isVersionTag(b)
            THEN /\ c < 0 <=> versionGreater(versionMatch(a), versionMatch(b))
                 /\ c > 0 <=> versionGreater(versionMatch(b), versionMatch(a))
            ELSE /\ c < 0 <=> lexLess(b, a)
                 /\ c > 0 <=> lexLess(a, b)

\* C11: for every pair of tags the comparator orders by descending
\* (major, minor, patch) when both match the version pattern and by reverse
\* string order of the whole names otherwise; a returned list without any
\* version tag is in reverse string order.
C11_ComparatorOnMixedSets ==
    tPc = "done" =>
        /\ comparatorPairwise
        /\ (\A i \in 1..Len(tagsResult) : ~isVersionTag(tagsResult[i])) =>
              \A i, j \in 1..Len(tagsResult) : i < j => lexLess(tagsResult[j], tagsResult[i])

C11_Witness ==
    /\ tPc = "done"
    /\ Len(remoteTags) = 3
    /\ remoteTags[1].name = "refs/tags/v1.2.0"
    /\ remoteTags[2].name = "v1.5"
    /\ remoteTags[3].name = "v1.10.0"
    /\ tagsResult = <<"v1.5", "refs/tags/v1.2.0">>

(***************************************************************************)
(* formatCommitWithTags on its own: one call for every sha and every list   *)
(* of up to MaxFormatTags tag names.                                        *)
(***************************************************************************)
MaxFormatTags == 4

ShaFull == "a1b2c3d4e5f6a7b8c9d0e1f2a3b4c5d6e7f8a9b0"

FormatShas == { ShaFull, ShaB }

FormatTagNames == { "v2.0.0", "v1.9.0", "v1.8.0", "v1.7.0" }

FormatTagLists == UNION { [1..n -> FormatTagNames] : n \in 0..MaxFormatTags }

FormatInit ==
    /\ content = ""
    /\ ParseIdle
    /\ TagIdle
    /\ RunIdle
    /\ PrIdle
    /\ ResolveIdle
    /\ OverlapIdle
    /\ fSha \in FormatShas
    /\ fTags \in FormatTagLists
    /\ fPc = "init"
    /\ display = ""

Format ==
    /\ fPc = "init"
    /\ display' = formatCommitWithTags(fSha, fTags)
    /\ fPc' = "done"
    /\ UNCHANGED <<fSha, fTags, content, parseVars, tagVars, runVars, prVars, resolveVars, overlapVars>>

FormatNext == Format

SpecFormat == FormatInit /\ [][FormatNext]_vars

\* the decimal numerals of the counts a "more" indicator can show
moreCount == <<"1", "2", "3", "4", "5", "6", "7", "8", "9">>

RECURSIVE countCompleteBlocks(_, _, _, _, _)
countCompleteBlocks(lines, i, inSub, hasPath, hasUrl) ==
    LET done == IF inSub /\ hasPath /\ hasUrl THEN 1 ELSE 0 IN
    IF i > Len(lines) THEN done
    ELSE LET t == trim(lines[i]) IN
         IF startsWith(t, "[")
         THEN done + countCompleteBlocks(lines, i + 1, startsWith(t, "[submodule "), FALSE, FALSE)
         ELSE countCompleteBlocks(lines, i + 1, inSub,
                                  hasPath \/ keyOf(t) = "path",
                                  hasUrl \/ keyOf(t) = "url")

CompleteBlocks(text) == countCompleteBlocks(split(text, "\n"), 1, FALSE, FALSE, FALSE)

\* C6: the number of declarations parseGitmodules returns equals the number of
\* [submodule ...] blocks of the text that contain both a path line and a url
\* line.
C6_DeclarationsMatchCompleteBlocks ==
    pPc # "init" => Len(parsed) = CompleteBlocks(content)

MaxSubmodules == 2

\* [submodule] blocks of the .gitmodules files of the run specification
BlockSet ==
    { "[submodule \"libs/a\"]\n\tpath = libs/a\n\turl = https://h/a.git\n",
      "[submodule \"b\"]\n\tpath = b\n\turl = https://h/b.git\n\tbranch = dev\n",
      "[submodule \"c\"]\n\tpath = c\n" }

ConfigTexts ==
    { join(bs, "") : bs \in UNION { [1..n -> BlockSet] : n \in 0..MaxSubmodules } }

\* the answers of git ls-tree HEAD <path>, each with the fact it stands for
LsTreeOutcomes(path) ==
    { [fact |-> [kind |-> "throws", sha |-> ""],
       response |-> [throws |-> TRUE, error |-> "Error: fatal: not a git repository"]],
      [fact |-> [kind |-> "absent", sha |-> ""],
       response |-> [throws |-> FALSE, out |-> ""]],
      [fact |-> [kind |-> "blob", sha |-> ShaA],
       response |-> [throws |-> FALSE, out |-> "100644 blob " \o ShaA \o "\t" \o path \o "\n"]] }
    \cup
    { [fact |-> [kind |-> "commit", sha |-> sha],
       response |-> [throws |-> FALSE, out |-> "160000 commit " \o sha \o "\t" \o path \o "\n"]]
      : sha \in {ShaA} }

\* the answers of git ls-remote <url> refs/heads/<branch>
LsRemoteOutcomes(branch) ==
    { [fact |-> [kind |-> "throws", sha |-> ""],
       response |-> [throws |-> TRUE, error |-> "Error: fatal: unable to access"]],
      [fact |-> [kind |-> "absent", sha |-> ""],
       response |-> [throws |-> FALSE, out |-> ""]] }
    \cup
    { [fact |-> [kind |-> "commit", sha |-> sha],
       response |-> [throws |-> FALSE, out |-> sha \o "\trefs/heads/" \o branch \o "\n"]]
      : sha \in {ShaA, ShaB} }

\* the tags of the remotes of the run specification: four at ShaA
RunRemoteTags ==
    << [name |-> "1.10.0-rc1", kind |-> "lightweight", commit |-> ShaA],
       [name |-> "v1.10.0", kind |-> "annotated", commit |-> ShaA],
       [name |-> "v1.2.0", kind |-> "lightweight", commit |-> ShaA],
       [name |-> "v1.9.5", kind |-> "annotated", commit |-> ShaA] >>

\* the answers of git ls-remote --tags <url>
TagOutcomes ==
    { [fact |-> [kind |-> "throws", sha |-> ""],
       response |-> [throws |-> TRUE, error |-> "Error: fatal: unable to access"]],
      [fact |-> [kind |-> "listing", sha |-> ""],
       response |-> [throws |-> FALSE, out |-> lsRemoteTags(RunRemoteTags)]] }

NotIssued == [kind |-> "notIssued", sha |-> ""]

RunInit ==
    /\ ParseIdle
    /\ TagIdle
    /\ FormatIdle
    /\ PrIdle
    /\ ResolveIdle
    /\ OverlapIdle
    /\ fileState \in {"missing", "readable", "unreadable"}
    /\ content \in (IF fileState = "readable" THEN ConfigTexts ELSE {""})
    /\ failOnOutdated \in BOOLEAN
    /\ \E input \in {"", "develop"} : defaultBranch = (IF input # "" THEN input ELSE "main")
    /\ pc = "start"
    /\ submodules = <<>>
    /\ index = 0
    /\ frame = EmptyFrame
    /\ results = <<>>
    /\ facts = <<>>
    /\ queries = <<>>
    /\ summary = EmptyObject
    /\ outputs = EmptyObject
    /\ taskResult = ""

\* the end of checkSubmodules (printSummary, setOutputVariables, return)
\* and what run() does with the returned results
Finish(res) ==
    /\ results' = res
    /\ summary' = printSummary(res)
    /\ outputs' = setOutputVariables(res)
    /\ taskResult' = runResult(res, failOnOutdated)
    /\ pc' = "done"
    /\ index' = index
    /\ frame' = EmptyFrame

\* PushResult flagging a path only the first time it is evaluated
PushResult_FlagOnce(rec) ==
    LET seen == \E k \in 1..Len(results) : results[k].path = rec.path
        res == Append(results, IF seen THEN [rec EXCEPT !.needsUpdate = FALSE] ELSE rec)
    IN
    IF index = Len(submodules)
    THEN Finish(res)
    ELSE /\ results' = res
         /\ index' = index + 1
         /\ frame' = EmptyFrame
         /\ pc' = "lsTree"
         /\ UNCHANGED <<summary, outputs, taskResult>>

\* PushResult leaving the loop at the first error record
PushResult_FailFast(rec) ==
    LET res == Append(results, rec) IN
    IF index = Len(submodules) \/ has(rec, "error")
    THEN Finish(res)
    ELSE /\ results' = res
         /\ index' = index + 1
         /\ frame' = EmptyFrame
         /\ pc' = "lsTree"
         /\ UNCHANGED <<summary, outputs, taskResult>>

\* PushResult with results.unshift(..) in place of results.push(..)
PushResult_Unshift(rec) ==
    LET res == <<rec>> \o results IN
    IF index = Len(submodules)
    THEN Finish(res)
    ELSE /\ results' = res
         /\ index' = index + 1
         /\ frame' = EmptyFrame
         /\ pc' = "lsTree"
         /\ UNCHANGED <<summary, outputs, taskResult>>

\* results.push(..) and the next iteration of the for loop
PushResult(rec) ==
    LET res == Append(results, rec) IN
    IF index = Len(submodules)
    THEN Finish(res)
    ELSE /\ results' = res
         /\ index' = index + 1
         /\ frame' = EmptyFrame
         /\ pc' = "lsTree"
         /\ UNCHANGED <<summary, outputs, taskResult>>

\* run() up to the first git query: the missing file, the read and the parse
Start ==
    /\ pc = "start"
    /\ IF fileState = "missing"
       THEN /\ results' = <<>>
            /\ taskResult' = runResult(<<>>, failOnOutdated)
            /\ pc' = "done"
            /\ UNCHANGED <<submodules, index, frame, summary, outputs>>
       ELSE IF fileState = "unreadable"
       THEN /\ taskResult' = "Failed"
            /\ pc' = "done"
            /\ UNCHANGED <<submodules, index, frame, results, summary, outputs>>
       ELSE LET parsedEntries == parseGitmodules(content) IN
            /\ submodules' = parsedEntries
            /\ IF Len(parsedEntries) = 0
               THEN Finish(<<>>)
               ELSE /\ index' = 1
                    /\ pc' = "lsTree"
                    /\ UNCHANGED <<frame, results, summary, outputs, taskResult>>
    /\ UNCHANGED <<content, fileState, failOnOutdated, defaultBranch, facts, queries,
                   parseVars, tagVars, formatVars, prVars, resolveVars, overlapVars>>

\* LsTree going on to the tag enumerations before the remote head is resolved
LsTree_TagsFirst ==
    /\ pc = "lsTree"
    /\ LET submodule == submodules[index] IN
       \E o \in LsTreeOutcomes(submodule.path) :
          LET r == getCurrentSubmoduleCommit(submodule.path, o.response) IN
          /\ facts' = Append(facts, [tree |-> o.fact, head |-> NotIssued,
                                     tagsCurrent |-> NotIssued, tagsLatest |-> NotIssued])
          /\ IF r.ok
             THEN /\ frame' = [frame EXCEPT !.currentCommit = r.sha]
                  /\ pc' = "tagsCurrent"
                  /\ UNCHANGED <<index, results, summary, outputs, taskResult>>
             ELSE PushResult(errorResult(submodule, r.message))
    /\ queries' = Append(queries, [op |-> "ls-tree", submodule |-> index])
    /\ UNCHANGED <<content, fileState, failOnOutdated, defaultBranch, submodules,
                   parseVars, tagVars, formatVars, prVars, resolveVars, overlapVars>>

\* checkSubmodule: git ls-tree answers getCurrentSubmoduleCommit
LsTree ==
    /\ pc = "lsTree"
    /\ LET submodule == submodules[index] IN
       \E o \in LsTreeOutcomes(submodule.path) :
          LET r == getCurrentSubmoduleCommit(submodule.path, o.response) IN
          /\ facts' = Append(facts, [tree |-> o.fact, head |-> NotIssued,
                                     tagsCurrent |-> NotIssued, tagsLatest |-> NotIssued])
          /\ IF r.ok
             THEN /\ frame' = [frame EXCEPT !.currentCommit = r.sha]
                  /\ pc' = "lsRemote"
                  /\ UNCHANGED <<index, results, summary, outputs, taskResult>>
             ELSE PushResult(errorResult(submodule, r.message))
    /\ queries' = Append(queries, [op |-> "ls-tree", submodule |-> index])
    /\ UNCHANGED <<content, fileState, failOnOutdated, defaultBranch, submodules,
                   parseVars, tagVars, formatVars, prVars, resolveVars, overlapVars>>

\* LsRemote asking the remote a second time after a first failure
LsRemote_RetryOnce ==
    /\ pc = "lsRemote"
    /\ LET submodule == submodules[index]
           branch == branchToCheck(submodule, defaultBranch)
       IN
       \E o \in LsRemoteOutcomes(branch) :
          LET r == getLatestRemoteCommit(submodule.url, branch, o.response) IN
          /\ facts' = [facts EXCEPT ![index].head = o.fact]
          /\ queries' = Append(queries, [op |-> "ls-remote", submodule |-> index,
                                         ref |-> "refs/heads/" \o branch])
          /\ IF r.ok
             THEN /\ frame' = [frame EXCEPT !.latestCommit = r.sha]
                  /\ pc' = "tagsCurrent"
                  /\ UNCHANGED <<index, results, summary, outputs, taskResult>>
             ELSE IF facts[index].head = NotIssued
             THEN UNCHANGED <<pc, frame, index, results, summary, outputs, taskResult>>
             ELSE PushResult(errorResult(submodule, r.message))
    /\ UNCHANGED <<content, fileState, failOnOutdated, defaultBranch, submodules,
                   parseVars, tagVars, formatVars, prVars, resolveVars, overlapVars>>

\* checkSubmodule: git ls-remote answers getLatestRemoteCommit
LsRemote ==
    /\ pc = "lsRemote"
    /\ LET submodule == submodules[index]
           branch == branchToCheck(submodule, defaultBranch)
       IN
       \E o \in LsRemoteOutcomes(branch) :
          LET r == getLatestRemoteCommit(submodule.url, branch, o.response) IN
          /\ facts' = [facts EXCEPT ![index].head = o.fact]
          /\ queries' = Append(queries, [op |-> "ls-remote", submodule |-> index,
                                         ref |-> "refs/heads/" \o branch])
          /\ IF r.ok
             THEN /\ frame' = [frame EXCEPT !.latestCommit = r.sha]
                  /\ pc' = "tagsCurrent"
                  /\ UNCHANGED <<index, results, summary, outputs, taskResult>>
             ELSE PushResult(errorResult(submodule, r.message))
    /\ UNCHANGED <<content, fileState, failOnOutdated, defaultBranch, submodules,
                   parseVars, tagVars, formatVars, prVars, resolveVars, overlapVars>>

\* checkSubmodule: git ls-remote --tags answers getTagsForCommit(url, currentCommit)
TagsCurrent ==
    /\ pc = "tagsCurrent"
    /\ \E o \in TagOutcomes :
          /\ facts' = [facts EXCEPT ![index].tagsCurrent = o.fact]
          /\ frame' = [frame EXCEPT !.currentCommitTags =
                                       getTagsForCommit(o.response, frame.currentCommit)]
    /\ queries' = Append(queries, [op |-> "ls-remote --tags", submodule |-> index])
    /\ pc' = "tagsLatest"
    /\ UNCHANGED <<content, fileState, failOnOutdated, defaultBranch, submodules, index,
                   results, summary, outputs, taskResult, parseVars, tagVars, formatVars, prVars, resolveVars, overlapVars>>

\* checkSubmodule: git ls-remote --tags answers getTagsForCommit(url, latestCommit),
\* the record is built and pushed
TagsLatest ==
    /\ pc = "tagsLatest"
    /\ \E o \in TagOutcomes :
          LET latestCommitTags == getTagsForCommit(o.response, frame.latestCommit) IN
          /\ facts' = [facts EXCEPT ![index].tagsLatest = o.fact]
          /\ PushResult(checkSubmodule(submodules[index], defaultBranch,
                                       frame.currentCommit, frame.latestCommit,
                                       frame.currentCommitTags, latestCommitTags))
    /\ queries' = Append(queries, [op |-> "ls-remote --tags", submodule |-> index])
    /\ UNCHANGED <<content, fileState, failOnOutdated, defaultBranch, submodules,
                   parseVars, tagVars, formatVars, prVars, resolveVars, overlapVars>>

Next ==
    \/ Start
    \/ LsTree
    \/ LsRemote
    \/ TagsCurrent
    \/ TagsLatest

Init == RunInit

Spec == Init /\ [][Next]_vars

(***************************************************************************)
(* Properties of checkSubmodules and run                                   *)
(***************************************************************************)
\* what the facts say about submodule i
currentResolved(i) == facts[i].tree.kind = "commit"
latestResolved(i) == facts[i].head.kind = "commit"
currentFailed(i) == facts[i].tree.kind \in {"throws", "absent", "blob"}
latestFailed(i) == facts[i].head.kind \in {"throws", "absent"}
tagQueriesOf(i) ==
    { k \in 1..Len(queries) : queries[k].op = "ls-remote --tags" /\ queries[k].submodule = i }

Errored(r) == has(r, "error") /\ r.error # "" /\ ~r.needsUpdate
NeedsUpdate(r) == r.needsUpdate /\ ~has(r, "error")
UpToDate(r) == ~r.needsUpdate /\ ~has(r, "error")

\* C1: when both commits were resolved, the record is UpToDate exactly when
\* the two full shas are equal and NeedsUpdate exactly when they differ,
\* whatever the tag queries answered.
C1_NeedsUpdateIffShasDiffer ==
    \A i \in 1..Len(results) :
        (currentResolved(i) /\ latestResolved(i)) =>
            /\ UpToDate(results[i]) <=> (facts[i].tree.sha = facts[i].head.sha)
            /\ NeedsUpdate(results[i]) <=> (facts[i].tree.sha # facts[i].head.sha)

\* two shas that differ only after the 8th character: same display, NeedsUpdate
C1_Witness ==
    \E i \in 1..Len(results) :
        /\ currentResolved(i) /\ latestResolved(i)
        /\ results[i].needsUpdate
        /\ results[i].currentCommit = results[i].latestCommit

\* C2: every record is Errored, NeedsUpdate or UpToDate and only one of them;
\* it is Errored exactly when the current or the latest resolution failed,
\* then error is the message of that failure and no tag query was issued.
C2_RecordStates ==
    \A i \in 1..Len(results) :
        LET r == results[i] IN
        /\ Cardinality({ st \in {"Errored", "NeedsUpdate", "UpToDate"} :
                            \/ st = "Errored" /\ Errored(r)
                            \/ st = "NeedsUpdate" /\ NeedsUpdate(r)
                            \/ st = "UpToDate" /\ UpToDate(r) }) = 1
        /\ Errored(r) <=> (currentFailed(i) \/ latestFailed(i))
        /\ currentFailed(i) =>
              /\ startsWith(r.error, "Failed to get current submodule commit for " \o r.path)
              /\ facts[i].head = NotIssued
              /\ facts[i].tree.kind = "throws" => endsWith(r.error, "fatal: not a git repository")
        /\ latestFailed(i) =>
              /\ startsWith(r.error, "Failed to get latest remote commit from " \o r.url)
              /\ facts[i].tree.kind = "commit"
              /\ facts[i].head.kind = "throws" => endsWith(r.error, "fatal: unable to access")
        /\ Errored(r) => tagQueriesOf(i) = {}

C2_Witness ==
    /\ pc = "done"
    /\ Len(results) = 2
    /\ Errored(results[1]) /\ latestFailed(1)
    /\ Errored(results[2]) /\ currentFailed(2)

\* the record submodule i gets from its own answers alone
tagsAtShaA == getTagsForCommit([throws |-> FALSE, out |-> lsRemoteTags(RunRemoteTags)], ShaA)
tagsAtShaB == getTagsForCommit([throws |-> FALSE, out |-> lsRemoteTags(RunRemoteTags)], ShaB)

tagsAnswered(fact, sha) ==
    IF fact.kind = "listing"
    THEN (IF sha = ShaA THEN tagsAtShaA ELSE tagsAtShaB)
    ELSE <<>>

ownRecord(i) ==
    checkSubmodule(submodules[i], defaultBranch, facts[i].tree.sha, facts[i].head.sha,
                   tagsAnswered(facts[i].tagsCurrent, facts[i].tree.sha),
                   tagsAnswered(facts[i].tagsLatest, facts[i].head.sha))

\* C3: whichever submodules fail, the run returns one record per declaration
\* and the record of a submodule that did not fail is the one its own answers
\* give, as in a run without failures.
C3_FailureIsolation ==
    (pc = "done" /\ fileState = "readable") =>
        /\ Len(results) = Len(submodules)
        /\ \A i \in 1..Len(results) :
              (currentResolved(i) /\ latestResolved(i)) => results[i] = ownRecord(i)

C3_Witness ==
    /\ pc = "done"
    /\ Len(results) = 2
    /\ latestFailed(1) /\ facts[1].head.kind = "throws"
    /\ currentResolved(2) /\ latestResolved(2)
    /\ results[2].needsUpdate

\* the paths of the declarations whose record needs update, in declaration order
outdatedDeclarationPaths ==
    LET flagged == SelectSeq([i \in 1..Len(results) |->
                                [path |-> submodules[i].path, outdated |-> results[i].needsUpdate]],
                             LAMBDA x : x.outdated)
    IN  [k \in 1..Len(flagged) |-> flagged[k].path]

\* C4: the i-th record has the path of the i-th declaration; a finished run
\* has one record per declaration, and the summary and the outdated-path list
\* follow that order.
C4_ResultsInDeclarationOrder ==
    /\ Len(results) <= Len(submodules)
    /\ \A i \in 1..Len(results) : results[i].path = submodules[i].path
    /\ (pc = "done" /\ fileState = "readable") =>
          /\ Len(results) = Len(submodules)
          /\ summary.total = Len(submodules)
          /\ outputs.SubmodulesNeedingUpdateList = join(outdatedDeclarationPaths, ",")

C4_Witness ==
    /\ pc = "done"
    /\ Len(results) = 2
    /\ results[1].path = "b" /\ Errored(results[1])
    /\ results[2].path = "libs/a" /\ results[2].needsUpdate

\* the records of each status, and the comma-joined NeedsUpdate paths
upToDateRecords == { i \in 1..Len(results) : UpToDate(results[i]) }
needsUpdateRecords == { i \in 1..Len(results) : NeedsUpdate(results[i]) }
erroredRecords == { i \in 1..Len(results) : Errored(results[i]) }

RECURSIVE commaList(_, _)
commaList(i, first) ==
    IF i > Len(results) THEN ""
    ELSE IF NeedsUpdate(results[i])
    THEN (IF first THEN "" ELSE ",") \o results[i].path \o commaList(i + 1, FALSE)
    ELSE commaList(i + 1, first)

\* C5: total is the list length, the three counts add up to it with every
\* record in one bucket (an Errored record never counts as up to date), and
\* SubmodulesNeedingUpdateList is the comma-joined paths of the NeedsUpdate
\* records in list order.
C5_Summarize ==
    (pc = "done" /\ fileState = "readable") =>
        /\ summary.total = Len(results)
        /\ summary.upToDate = Cardinality(upToDateRecords)
        /\ summary.needsUpdate = Cardinality(needsUpdateRecords)
        /\ summary.errors = Cardinality(erroredRecords)
        /\ summary.upToDate + summary.needsUpdate + summary.errors = summary.total
        /\ outputs.SubmodulesNeedingUpdateList = commaList(1, TRUE)

C5_Witness ==
    /\ pc = "done"
    /\ Len(results) = 2
    /\ NeedsUpdate(results[1]) /\ NeedsUpdate(results[2])
    /\ outputs.SubmodulesNeedingUpdateList = "libs/a,b"

\* C8: without a .gitmodules file the run returns no record, issues no git
\* query and ends Succeeded; a file without a valid declaration does the same.
C8_NoSubmodules ==
    pc = "done" =>
        /\ fileState = "missing" =>
              /\ results = <<>> /\ queries = <<>> /\ taskResult = "Succeeded"
        /\ (fileState = "readable" /\ submodules = <<>>) =>
              /\ results = <<>> /\ queries = <<>> /\ taskResult = "Succeeded"

C8_Witness ==
    /\ pc = "done"
    /\ fileState = "missing"
    /\ failOnOutdated
    /\ taskResult = "Succeeded"

tagsThrew(i) == facts[i].tagsCurrent.kind = "throws" \/ facts[i].tagsLatest.kind = "throws"

\* C13: a tag enumeration that fails yields an empty tag list and the
\* evaluation goes on: a submodule whose two commits were resolved gets a
\* record without error, whose needsUpdate is decided by the two shas as
\* with a successful enumeration and whose display of the commit is the
\* short sha alone.
C13_TagFailureIsBestEffort ==
    /\ (pc = "tagsLatest" /\ facts[index].tagsCurrent.kind = "throws") =>
           frame.currentCommitTags = <<>>
    /\ \A i \in 1..Len(results) :
          (currentResolved(i) /\ latestResolved(i) /\ tagsThrew(i)) =>
              LET r == results[i] IN
              /\ ~has(r, "error")
              /\ r.needsUpdate = (facts[i].tree.sha # facts[i].head.sha)
              /\ r.needsUpdate = ownRecord(i).needsUpdate
              /\ facts[i].tagsCurrent.kind = "throws" =>
                    r.currentCommit = SubSeq(facts[i].tree.sha, 1, ShortShaLen)
              /\ facts[i].tagsLatest.kind = "throws" =>
                    r.latestCommit = SubSeq(facts[i].head.sha, 1, ShortShaLen)

\* same sha on both sides, tags listed for the current commit only
C13_Witness ==
    \E i \in 1..Len(results) :
        /\ currentResolved(i) /\ latestResolved(i)
        /\ facts[i].tree.sha = facts[i].head.sha
        /\ facts[i].tagsCurrent.kind = "listing"
        /\ facts[i].tagsLatest.kind = "throws"
        /\ results[i].currentCommit # results[i].latestCommit
        /\ UpToDate(results[i])

\* the branch the declaration names, the configured default branch otherwise
branchUsed(declaration) ==
    IF has(declaration, "branch") THEN declaration.branch ELSE defaultBranch

\* C18: every record, Errored records included, carries as branch the
\* declaration's branch when it has one and the default branch otherwise, and
\* every remote head query asks for refs/heads/<that branch>.
C18_BranchOfEveryRecord ==
    /\ \A i \in 1..Len(results) :
          /\ has(results[i], "branch")
          /\ results[i].branch = branchUsed(submodules[i])
    /\ \A k \in 1..Len(queries) :
          queries[k].op = "ls-remote" =>
              queries[k].ref = "refs/heads/" \o branchUsed(submodules[queries[k].submodule])

countQueries(op, i) ==
    Cardinality({ k \in 1..Len(queries) : queries[k].op = op /\ queries[k].submodule = i })

\* at most one local tree query, one remote head query and two tag
\* enumerations per submodule; a failed commit resolution ends the
\* submodule's queries and is the error of its record
singleAttempt(i) ==
    /\ countQueries("ls-tree", i) <= 1
    /\ countQueries("ls-remote", i) <= 1
    /\ countQueries("ls-remote --tags", i) <= 2
    /\ currentFailed(i) =>
          /\ countQueries("ls-remote", i) = 0 /\ countQueries("ls-remote --tags", i) = 0
          /\ i <= Len(results) /\ Errored(results[i])
    /\ latestFailed(i) =>
          /\ countQueries("ls-remote --tags", i) = 0
          /\ i <= Len(results) /\ Errored(results[i])

\* C20 as stated: every submodule causes at most one local tree query, one
\* remote head query and two tag enumerations; a query that failed, a tag
\* enumeration included, is not reissued and its failure is reported in that
\* submodule's own record.
C20_NoRetryAllFailuresReported ==
    \A i \in 1..Len(facts) :
        /\ singleAttempt(i)
        /\ (tagsThrew(i) /\ i <= Len(results)) => has(results[i], "error")

\* C20 (amended): every submodule causes at most one local tree query, one
\* remote head query and two tag enumerations; a failed local tree or remote
\* head query is not reissued and its failure is the error of that
\* submodule's own record; a failed tag enumeration is not reissued either
\* and leaves the record without an error.
C20_NoRetry ==
    \A i \in 1..Len(facts) :
        /\ singleAttempt(i)
        /\ (tagsThrew(i) /\ i <= Len(results)) => ~has(results[i], "error")

C20_Witness ==
    /\ pc = "done"
    /\ Len(results) = 2
    /\ latestFailed(1) /\ Errored(results[1])
    /\ countQueries("ls-remote", 1) = 1
    /\ facts[2].tagsCurrent.kind = "throws"
    /\ countQueries("ls-remote --tags", 2) = 2
    /\ ~has(results[2], "error")

(***************************************************************************)
(* AzureDevOpsApi: the pull-request comment client                         *)
(***************************************************************************)
\* the printable ASCII characters in code order: codes 32..95 and 97..126
AsciiLow == " !\"#$%&'()*+,-./0123456789:;<=>?@ABCDEFGHIJKLMNOPQRSTUVWXYZ[\\]^_"
AsciiHigh == "abcdefghijklmnopqrstuvwxyz{|}~"

charCode(c) ==
    IF \E i \in 1..Len(AsciiLow) : Ch(AsciiLow, i) = c
    THEN 31 + (CHOOSE i \in 1..Len(AsciiLow) : Ch(AsciiLow, i) = c)
    ELSE 96 + (CHOOSE i \in 1..Len(AsciiHigh) : Ch(AsciiHigh, i) = c)

Base64Alphabet == "ABCDEFGHIJKLMNOPQRSTUVWXYZabcdefghijklmnopqrstuvwxyz0123456789+/"

\* Buffer.from(s).toString('base64') for an ASCII string
base64(s) ==
    LET n == Len(s)
        byte(i) == IF i <= n THEN charCode(Ch(s, i)) ELSE 0
        group(g) ==
            LET v == byte(3 * g + 1) * 65536 + byte(3 * g + 2) * 256 + byte(3 * g + 3)
            IN  Ch(Base64Alphabet, (v \div 262144) + 1)
                \o Ch(Base64Alphabet, ((v \div 4096) % 64) + 1)
                \o (IF 3 * g + 2 <= n THEN Ch(Base64Alphabet, ((v \div 64) % 64) + 1) ELSE "=")
                \o (IF 3 * g + 3 <= n THEN Ch(Base64Alphabet, (v % 64) + 1) ELSE "=")
    IN  join([k \in 1..((n + 2) \div 3) |-> group(k - 1)], "")

NoTokenMessage == "No access token available for Azure DevOps API. Consider adding \"SYSTEM_ACCESSTOKEN: $(System.AccessToken)\" to your task environment variables."

\* getAuthorizationHeaders preferring the system access token
getAuthorizationHeaders_SystemFirst(env) ==
    IF env.systemAccessToken # ""
    THEN [ok |-> TRUE, Authorization |-> "Bearer " \o env.systemAccessToken]
    ELSE IF env.taskLibToken # ""
    THEN [ok |-> TRUE, Authorization |-> "Bearer " \o env.taskLibToken]
    ELSE IF env.myAccessToken # ""
    THEN [ok |-> TRUE, Authorization |-> "Basic " \o base64(":" \o env.myAccessToken)]
    ELSE [ok |-> FALSE, message |-> NoTokenMessage]

\* getAuthorizationHeaders: the header, or the error it throws
getAuthorizationHeaders(env) ==
    IF env.taskLibToken # ""
    THEN [ok |-> TRUE, Authorization |-> "Bearer " \o env.taskLibToken]
    ELSE IF env.myAccessToken # ""
    THEN [ok |-> TRUE, Authorization |-> "Basic " \o base64(":" \o env.myAccessToken)]
    ELSE IF env.systemAccessToken # ""
    THEN [ok |-> TRUE, Authorization |-> "Bearer " \o env.systemAccessToken]
    ELSE [ok |-> FALSE, message |-> NoTokenMessage]

getApiBaseUrl(env) == env.teamFoundationServerUri \o env.teamProjectId \o "/_apis"

threadsQueryString(env) ==
    "/git/repositories/" \o env.buildRepositoryName \o "/pullRequests/"
        \o env.pullRequestId \o "/threads?api-version=6.0"

\* new URL(url) accepts an absolute URL only
isAbsoluteUrl(url) == startsWith(url, "https://") \/ startsWith(url, "http://")

\* makeApiCall up to req.end(): the request sent, or the rejection when
\* new URL or getAuthorizationHeaders throws inside the promise executor
openRequest(env, queryString, method, body) ==
    LET url == getApiBaseUrl(env) \o queryString
        auth == getAuthorizationHeaders(env)
    IN  IF ~isAbsoluteUrl(url) THEN [sent |-> FALSE, message |-> "Invalid URL"]
        ELSE IF ~auth.ok THEN [sent |-> FALSE, message |-> auth.message]
        ELSE [sent |-> TRUE,
              request |-> [method |-> method, url |-> url,
                           Authorization |-> auth.Authorization, body |-> body]]

\* makeApiCall from the answer on: the 'end' handler of the response and
\* the 'error' handler of the request
settle(outcome) ==
    IF outcome.kind = "error"
    THEN [resolved |-> FALSE, message |-> outcome.message]
    ELSE IF ~outcome.parsed
    THEN [resolved |-> FALSE,
          message |-> "Failed to parse JSON response: " \o outcome.syntaxError]
    ELSE IF outcome.statusCode >= 200 /\ outcome.statusCode < 300
    THEN [resolved |-> TRUE, value |-> outcome.json]
    ELSE [resolved |-> FALSE,
          message |-> "HTTP " \o toString(outcome.statusCode) \o ": " \o outcome.data]

\* the object addPullRequestComment serialises as the body of the POST
commentThread(candidate) ==
    [comments |-> << [parentCommentId |-> 0, content |-> candidate, commentType |-> 1] >>,
     status |-> 1]

\* hasComment looking at the first thread only
hasComment_FirstThreadOnly(value, candidate) ==
    /\ Len(value) > 0
    /\ \E c \in 1..Len(value[1].comments) : value[1].comments[c].content = candidate

\* hasComment testing whether a comment contains the candidate text
hasComment_Includes(value, candidate) ==
    \E t \in 1..Len(value) :
        \E c \in 1..Len(value[t].comments) : includes(value[t].comments[c].content, candidate)

\* commentsResponse.value.some(thread => thread.comments.some(c => c.content === commentContent))
hasComment(value, candidate) ==
    \E t \in 1..Len(value) :
        \E c \in 1..Len(value[t].comments) : value[t].comments[c].content = candidate

\* the branch of the catch block of addPullRequestCommentIfNotExists
classify(errorMessage) ==
    IF includes(errorMessage, "403") \/ includes(errorMessage, "Forbidden")
          \/ includes(errorMessage, "Access Denied")
    THEN "permission"
    ELSE IF includes(errorMessage, "401") \/ includes(errorMessage, "Unauthorized")
    THEN "authentication"
    ELSE IF includes(errorMessage, "404") \/ includes(errorMessage, "Not Found")
    THEN "not-found"
    ELSE "other"

(***************************************************************************)
(* Calls of addPullRequestCommentIfNotExists, one after the other, against *)
(* a server that keeps the threads of the pull request.                    *)
(***************************************************************************)
MaxCalls == 2

CandidateBody == "Submodule b needs update"

PrEnvironments ==
    { [teamFoundationServerUri |-> uri, teamProjectId |-> "p1",
       buildRepositoryName |-> "repo", buildReason |-> "PullRequest",
       pullRequestId |-> id, systemAccessToken |-> sys, myAccessToken |-> my,
       taskLibToken |-> job] :
         uri \in {"", "https://dev.azure.com/o/"}, id \in {"", "7"},
         sys \in {"", "sys"}, my \in {"", "pat"}, job \in {"", "job"} }

\* a thread as the server lists it
threadOf(contents) == [comments |-> [k \in 1..Len(contents) |-> [content |-> contents[k]]]]

InitialThreads ==
    { <<>>,
      << threadOf(<<"LGTM">>) >>,
      << threadOf(<<"LGTM", CandidateBody>>) >>,
      << threadOf(<<CandidateBody \o " ">>) >> }

\* the JSON text of a thread listing
threadsJson(ts) ==
    LET commentJson(c) == "{\"content\":\"" \o c.content \o "\"}"
        threadJson(t) ==
            "{\"comments\":["
              \o join([k \in 1..Len(t.comments) |-> commentJson(t.comments[k])], ",") \o "]}"
    IN  "{\"value\":[" \o join([k \in 1..Len(ts) |-> threadJson(ts[k])], ",") \o "]}"

\* an HTTP response: its status, its body and what JSON.parse makes of the body
response(statusCode, data, isJson, json, syntaxError) ==
    [kind |-> "response", statusCode |-> statusCode, data |-> data, parsed |-> isJson,
     json |-> json, syntaxError |-> syntaxError]

NetworkError == [kind |-> "error", message |-> "getaddrinfo ENOTFOUND dev.azure.com"]

Pending == [kind |-> "pending"]

HtmlSyntaxError == "SyntaxError: Unexpected token < in JSON at position 0"

\* answers of the server that refuse the request
ErrorResponses ==
    { response(401, "{\"message\":\"Unauthorized\"}", TRUE, [message |-> "Unauthorized"], ""),
      response(403, "{\"message\":\"Forbidden\"}", TRUE, [message |-> "Forbidden"], ""),
      response(403, "<html>denied</html>", FALSE, EmptyObject, HtmlSyntaxError),
      response(404, "{\"message\":\"TF401019: The Git repository does not exist\"}", TRUE,
               [message |-> "TF401019: The Git repository does not exist"], ""),
      response(500, "{\"message\":\"error\"}", TRUE, [message |-> "error"], "") }

\* what can answer the GET of the threads
ListOutcomes(ts) ==
    { NetworkError } \cup ErrorResponses \cup
    { response(200, threadsJson(ts), TRUE, [value |-> ts, count |-> Len(ts)], ""),
      response(200, "{}", TRUE, EmptyObject, ""),
      response(200, "<html>ok</html>", FALSE, EmptyObject, HtmlSyntaxError) }

\* what can answer the POST of a thread, and whether the server stored it
PostOutcomes ==
    { [answer |-> a, stored |-> FALSE] : a \in { NetworkError } \cup ErrorResponses } \cup
    { [answer |-> NetworkError, stored |-> TRUE],
      [answer |-> response(200, "{\"id\":1}", TRUE, [id |-> 1], ""), stored |-> TRUE],
      [answer |-> response(200, "<html>ok</html>", FALSE, EmptyObject, HtmlSyntaxError),
       stored |-> TRUE] }

statusOf(answer) == IF answer.kind = "response" THEN answer.statusCode ELSE 0

PrInit ==
    /\ content = ""
    /\ ParseIdle
    /\ TagIdle
    /\ RunIdle
    /\ FormatIdle
    /\ ResolveIdle
    /\ OverlapIdle
    /\ environment \in PrEnvironments
    /\ addPullRequestComments = TRUE
    /\ commentContent = CandidateBody
    /\ threads \in InitialThreads
    /\ prPc = "idle"
    /\ calls = 0
    /\ requests = <<>>
    /\ returns = <<>>
    /\ logs = <<>>

\* return <value> of addPullRequestCommentIfNotExists
Return(value) ==
    /\ returns' = Append(returns, [threw |-> FALSE, value |-> value])
    /\ prPc' = "idle"

\* the catch block rethrowing what it does not classify
Catch_RethrowOther(errorMessage, statusCode) ==
    /\ logs' = Append(logs, [classification |-> classify(errorMessage),
                             message |-> errorMessage, statusCode |-> statusCode])
    /\ returns' = Append(returns, IF classify(errorMessage) = "other"
                                  THEN [threw |-> TRUE, value |-> FALSE]
                                  ELSE [threw |-> FALSE, value |-> FALSE])
    /\ prPc' = "idle"

\* the catch block of addPullRequestCommentIfNotExists: classify, log,
\* return false; statusCode is the status of the response behind the
\* error, 0 when there was none
Catch(errorMessage, statusCode) ==
    /\ logs' = Append(logs, [classification |-> classify(errorMessage),
                             message |-> errorMessage, statusCode |-> statusCode])
    /\ returns' = Append(returns, [threw |-> FALSE, value |-> FALSE])
    /\ prPc' = "idle"

\* a request leaves, its answer still to come
Send(request) ==
    requests' = Append(requests, [call |-> calls', request |-> request,
                                  answer |-> Pending, stored |-> FALSE])

Answered(answer, stored) ==
    requests' = [requests EXCEPT ![Len(requests)].answer = answer,
                                 ![Len(requests)].stored = stored]

\* addPullRequestCommentIfNotExists up to the GET of getPullRequestComments
CallStart ==
    /\ prPc = "idle"
    /\ calls < MaxCalls
    /\ calls' = calls + 1
    /\ IF environment.pullRequestId = ""
       THEN /\ Catch("Pull Request ID not available", 0)
            /\ UNCHANGED requests
       ELSE LET r == openRequest(environment, threadsQueryString(environment), "GET", EmptyObject)
            IN  IF r.sent
                THEN /\ Send(r.request)
                     /\ prPc' = "listing"
                     /\ UNCHANGED <<returns, logs>>
                ELSE /\ Catch("Failed to get PR comments: " \o r.message, 0)
                     /\ UNCHANGED requests
    /\ UNCHANGED <<environment, addPullRequestComments, commentContent, threads,
                   content, parseVars, tagVars, runVars, formatVars, resolveVars, overlapVars>>

\* the GET is answered: the existing comments are searched and, when the
\* comment is not there, addPullRequestComment sends the POST
ListResponds ==
    /\ prPc = "listing"
    /\ \E o \in ListOutcomes(threads) :
          LET s == settle(o) IN
          IF ~s.resolved
          THEN /\ Answered(o, FALSE)
               /\ Catch("Failed to get PR comments: " \o s.message, statusOf(o))
          ELSE IF ~has(s.value, "value")
          THEN /\ Answered(o, FALSE)
               /\ Catch("Cannot read properties of undefined (reading 'some')", statusOf(o))
          ELSE IF hasComment(s.value.value, commentContent)
          THEN /\ Answered(o, FALSE)
               /\ Return(FALSE)
               /\ UNCHANGED logs
          ELSE IF environment.pullRequestId = ""
          THEN /\ Answered(o, FALSE)
               /\ Catch("Pull Request ID not available", 0)
          ELSE LET r == openRequest(environment, threadsQueryString(environment), "POST",
                                    commentThread(commentContent))
               IN  IF r.sent
                   THEN /\ requests' = Append([requests EXCEPT ![Len(requests)].answer = o],
                                              [call |-> calls, request |-> r.request,
                                               answer |-> Pending, stored |-> FALSE])
                        /\ prPc' = "posting"
                        /\ UNCHANGED <<returns, logs>>
                   ELSE /\ Answered(o, FALSE)
                        /\ Catch("Failed to add PR comment: " \o r.message, 0)
    /\ UNCHANGED <<environment, addPullRequestComments, commentContent, threads, calls,
                   content, parseVars, tagVars, runVars, formatVars, resolveVars, overlapVars>>

\* the POST is answered; the server has stored the thread or has not
PostResponds ==
    /\ prPc = "posting"
    /\ \E o \in PostOutcomes :
          LET s == settle(o.answer)
              posted == requests[Len(requests)].request.body.comments[1].content
          IN  /\ threads' = IF o.stored THEN Append(threads, threadOf(<<posted>>)) ELSE threads
              /\ Answered(o.answer, o.stored)
              /\ IF s.resolved
                 THEN Return(TRUE) /\ UNCHANGED logs
                 ELSE Catch("Failed to add PR comment: " \o s.message, statusOf(o.answer))
    /\ UNCHANGED <<environment, addPullRequestComments, commentContent, calls,
                   content, parseVars, tagVars, runVars, formatVars, resolveVars, overlapVars>>

PrNext ==
    \/ CallStart
    \/ ListResponds
    \/ PostResponds

SpecPr == PrInit /\ [][PrNext]_vars

(***************************************************************************)
(* Properties of addPullRequestCommentIfNotExists                          *)
(***************************************************************************)
requestsOf(n, method) ==
    { k \in 1..Len(requests) : requests[k].call = n /\ requests[k].request.method = method }

\* a 2xx answer whose body is JSON
succeeded(answer) ==
    /\ answer.kind = "response"
    /\ answer.statusCode \in 200..299
    /\ answer.parsed

\* the answer lists the threads
listingSucceeded(answer) == succeeded(answer) /\ has(answer.json, "value")

\* some comment of the listed threads is the text, character for character
listedHas(answer, body) ==
    \E t \in 1..Len(answer.json.value) :
        \E c \in 1..Len(answer.json.value[t].comments) :
            answer.json.value[t].comments[c].content = body

\* C14: when the listed threads hold a comment equal to the candidate body
\* the call sends no POST and returns false; when the listing succeeded and
\* holds no such comment the call sends exactly one POST, carrying the
\* candidate body, and returns true exactly when that POST succeeded.
C14_PostOnlyWhenAbsent ==
    /\ \A n \in 1..calls : Cardinality(requestsOf(n, "POST")) <= 1
    /\ \A n \in 1..Len(returns) :
          \A k \in requestsOf(n, "GET") :
             listingSucceeded(requests[k].answer) =>
                IF listedHas(requests[k].answer, commentContent)
                THEN /\ requestsOf(n, "POST") = {}
                     /\ returns[n] = [threw |-> FALSE, value |-> FALSE]
                ELSE /\ Cardinality(requestsOf(n, "POST")) = 1
                     /\ \A p \in requestsOf(n, "POST") :
                           /\ p = k + 1
                           /\ requests[p].request.body.comments[1].content = commentContent
                           /\ Len(requests[p].request.body.comments) = 1
                           /\ ~returns[n].threw
                           /\ returns[n].value <=> succeeded(requests[p].answer)

\* next to a comment that differs by a trailing space the first call posts
\* and returns true, the second finds the comment and returns false
C14_Witness ==
    /\ Len(returns) = 2
    /\ Len(threads) = 2
    /\ threads[1] = threadOf(<<CandidateBody \o " ">>)
    /\ returns[1].value
    /\ Cardinality(requestsOf(1, "POST")) = 1
    /\ ~returns[2].value
    /\ requestsOf(2, "POST") = {}
    /\ \E k \in requestsOf(2, "GET") :
          /\ listingSucceeded(requests[k].answer)
          /\ listedHas(requests[k].answer, commentContent)

posts == { k \in 1..Len(requests) : requests[k].request.method = "POST" }

\* where the server holds a comment equal to the text
storedCopies(body) ==
    UNION { { <<t, c>> : c \in { i \in 1..Len(threads[t].comments) :
                                    threads[t].comments[i].content = body } } :
            t \in 1..Len(threads) }

\* C15 as stated: over any sequence of calls with the same body at most one
\* POST is ever sent, and no POST is sent once the threads hold the body.
C15_AtMostOnePostEver ==
    /\ Cardinality(posts) <= 1
    /\ prPc = "posting" => storedCopies(commentContent) = {}

\* C15 (amended): over any sequence of calls with the same body at most one
\* POST is ever accepted by the server, a further POST being sent only after
\* every earlier one failed without the comment being stored; no POST is
\* sent once the threads hold the body, so the body is stored at most once.
C15_IdempotentPosting ==
    /\ \A k, j \in posts : k < j => ~requests[k].stored
    /\ Cardinality({ k \in posts : requests[k].stored }) <= 1
    /\ prPc = "posting" => storedCopies(commentContent) = {}
    /\ Cardinality(storedCopies(commentContent)) <= 1

\* the first POST is refused, the second call posts again and is accepted
C15_Witness ==
    /\ Len(returns) = 2
    /\ Cardinality(posts) = 2
    /\ \E k, j \in posts :
          /\ k < j
          /\ statusOf(requests[k].answer) = 500 /\ ~requests[k].stored
          /\ succeeded(requests[j].answer) /\ requests[j].stored
    /\ ~returns[1].value
    /\ returns[2].value
    /\ Cardinality(storedCopies(commentContent)) = 1

noToken ==
    /\ environment.taskLibToken = ""
    /\ environment.myAccessToken = ""
    /\ environment.systemAccessToken = ""

\* call n failed: its GET was not sent or brought no listing, or its POST
\* was not answered with success
callFailed(n) ==
    \/ requestsOf(n, "GET") = {}
    \/ \E k \in requestsOf(n, "GET") : ~listingSucceeded(requests[k].answer)
    \/ \E p \in requestsOf(n, "POST") : ~succeeded(requests[p].answer)

\* C16: the function never throws; a call that failed (no pull-request id,
\* no token, network error, status outside 2xx, unparsable body) returns
\* false; without a pull-request id or without any token no request is sent.
C16_FailuresNeverPropagate ==
    /\ prPc = "idle" => Len(returns) = calls
    /\ \A n \in 1..Len(returns) :
          /\ ~returns[n].threw
          /\ callFailed(n) => ~returns[n].value
    /\ (environment.pullRequestId = "" \/ noToken) => requests = <<>>
    /\ Len(logs) = Cardinality({ n \in 1..Len(returns) : callFailed(n) })

\* no token at all: both calls return false and no request was sent
C16_Witness ==
    /\ Len(returns) = 2
    /\ ~returns[1].value /\ ~returns[2].value
    /\ noToken
    /\ environment.pullRequestId # ""
    /\ requests = <<>>
    /\ logs[1].message = "Failed to get PR comments: " \o NoTokenMessage

\* the classification the status of the response calls for
classOfStatus(statusCode) ==
    CASE statusCode = 403 -> "permission"
      [] statusCode = 401 -> "authentication"
      [] statusCode = 404 -> "not-found"
      [] OTHER -> "other"

\* C17: every failed call is logged with the classification of the status
\* of the response behind the failure (403 permission, 401 authentication,
\* 404 not-found, anything else other), whatever the body of the response.
C17_ClassifiedByStatus ==
    \A i \in 1..Len(logs) : logs[i].classification = classOfStatus(logs[i].statusCode)

(***************************************************************************)
(* The two commit resolvers on their own: one call for every answer of git *)
(***************************************************************************)
ResolveShas == { ShaA, ShaB, ShaFull }

ResolvePaths == { "libs/a", "b" }

ResolveUrls == { "https://h/a.git", "git@h:b.git" }

ResolveBranches == { "main", "dev" }

\* git ls-tree HEAD <path>: the command fails, prints nothing for a path
\* that is not in the tree, or prints the entry of the path
LsTreeAnswers(path) ==
    { [entry |-> [kind |-> "throws", sha |-> ""],
       response |-> [throws |-> TRUE, error |-> e]] :
         e \in { "Error: fatal: not a git repository",
                 "Error: fatal: Not a valid object name HEAD" } }
    \cup
    { [entry |-> [kind |-> "absent", sha |-> ""], response |-> [throws |-> FALSE, out |-> ""]] }
    \cup
    { [entry |-> [kind |-> t.kind, sha |-> sha],
       response |-> [throws |-> FALSE,
                     out |-> t.mode \o " " \o t.kind \o " " \o sha \o "\t" \o path \o "\n"]] :
         t \in { [mode |-> "100644", kind |-> "blob"],
                 [mode |-> "040000", kind |-> "tree"],
                 [mode |-> "160000", kind |-> "commit"] },
         sha \in ResolveShas }

\* git ls-remote <url> refs/heads/<branch>: the command fails, prints
\* nothing when no reference matches, or prints the matching references
LsRemoteAnswers(branch) ==
    { [first |-> "", response |-> [throws |-> TRUE, error |-> e]] :
         e \in { "Error: fatal: unable to access", "Error: fatal: Authentication failed" } }
    \cup
    { [first |-> "", response |-> [throws |-> FALSE, out |-> ""]] }
    \cup
    { [first |-> sha,
       response |-> [throws |-> FALSE, out |-> sha \o "\trefs/heads/" \o branch \o "\n"]] :
         sha \in ResolveShas }
    \cup
    { [first |-> p[1],
       response |-> [throws |-> FALSE,
                     out |-> p[1] \o "\trefs/heads/" \o branch \o "\n"
                             \o p[2] \o "\trefs/heads/x/refs/heads/" \o branch \o "\n"]] :
         p \in { q \in ResolveShas \X ResolveShas : q[1] # q[2] } }

ResolveInit ==
    /\ content = ""
    /\ ParseIdle
    /\ TagIdle
    /\ RunIdle
    /\ FormatIdle
    /\ PrIdle
    /\ OverlapIdle
    /\ resolveCall \in
          UNION { { [fn |-> "getCurrentSubmoduleCommit", submodulePath |-> path,
                     entry |-> a.entry, response |-> a.response] :
                       a \in LsTreeAnswers(path) } : path \in ResolvePaths }
          \cup
          UNION { { [fn |-> "getLatestRemoteCommit", repoUrl |-> url, branch |-> branch,
                     first |-> a.first, response |-> a.response] :
                       url \in ResolveUrls, a \in LsRemoteAnswers(branch) } :
                  branch \in ResolveBranches }
    /\ resolvePc = "init"
    /\ resolved = EmptyObject

ResolveCurrent ==
    /\ resolvePc = "init"
    /\ resolveCall.fn = "getCurrentSubmoduleCommit"
    /\ resolved' = getCurrentSubmoduleCommit(resolveCall.submodulePath, resolveCall.response)
    /\ resolvePc' = "done"
    /\ UNCHANGED <<resolveCall, content, parseVars, tagVars, runVars, formatVars, prVars,
                   overlapVars>>

ResolveLatest ==
    /\ resolvePc = "init"
    /\ resolveCall.fn = "getLatestRemoteCommit"
    /\ resolved' = getLatestRemoteCommit(resolveCall.repoUrl, resolveCall.branch,
                                         resolveCall.response)
    /\ resolvePc' = "done"
    /\ UNCHANGED <<resolveCall, content, parseVars, tagVars, runVars, formatVars, prVars,
                   overlapVars>>

ResolveNext ==
    \/ ResolveCurrent
    \/ ResolveLatest

SpecResolve == ResolveInit /\ [][ResolveNext]_vars

resolvedCurrent == resolvePc = "done" /\ resolveCall.fn = "getCurrentSubmoduleCommit"

\* C21: getCurrentSubmoduleCommit returns the sha exactly when git lists the
\* path as an entry of kind commit, and then the sha of that entry; when the
\* path is absent, the entry is a blob or a tree, or git fails, it fails
\* with a message that names the submodule path and returns no sha.
C21_ShaOnlyForGitlink ==
    resolvedCurrent =>
        IF resolveCall.entry.kind = "commit"
        THEN resolved = [ok |-> TRUE, sha |-> resolveCall.entry.sha]
        ELSE /\ ~resolved.ok
             /\ ~has(resolved, "sha")
             /\ includes(resolved.message, resolveCall.submodulePath)

C21_Witness ==
    /\ resolvedCurrent
    /\ resolveCall.entry.kind = "tree"
    /\ ~resolved.ok
    /\ includes(resolved.message, "libs/a")

resolvedLatest == resolvePc = "done" /\ resolveCall.fn = "getLatestRemoteCommit"

\* what the failure of getLatestRemoteCommit is about
remoteDetail ==
    IF resolveCall.response.throws
    THEN resolveCall.response.error
    ELSE "Error: Could not find branch '" \o resolveCall.branch \o "' in remote repository"

\* C22: getLatestRemoteCommit returns the sha of the first reference line;
\* when the remote lists no reference or the query fails it returns no sha
\* and fails with one kind of error, whose message carries the remote url,
\* the branch and the underlying detail.
C22_FirstReferenceOrOneError ==
    resolvedLatest =>
        IF resolveCall.first # ""
        THEN resolved = [ok |-> TRUE, sha |-> resolveCall.first]
        ELSE /\ ~resolved.ok
             /\ ~has(resolved, "sha")
             /\ startsWith(resolved.message, "Failed to get latest remote commit from ")
             /\ includes(resolved.message, resolveCall.repoUrl)
             /\ includes(resolved.message, "branch: " \o resolveCall.branch)
             /\ endsWith(resolved.message, remoteDetail)

C22_Witness ==
    /\ resolvedLatest
    /\ ~resolveCall.response.throws
    /\ Len(split(trim(resolveCall.response.out), "\n")) = 2
    /\ resolved.ok
    /\ resolved.sha = ShaB

C22_WitnessFailure ==
    /\ resolvedLatest
    /\ resolveCall.response.throws
    /\ endsWith(resolved.message, "Authentication failed")

someNeedsUpdate == \E k \in 1..Len(results) : results[k].needsUpdate

someErrored == \E k \in 1..Len(results) : has(results[k], "error")

\* C23: a run sets its result once, when it ends: Failed when failOnOutdated
\* is set and a submodule needs update (whatever the errors) or when an
\* exception escapes the check, otherwise SucceededWithIssues when a record
\* is errored, otherwise Succeeded; without failOnOutdated a run whose check
\* returned is never Failed.
C23_TaskResult ==
    /\ pc # "done" => taskResult = ""
    /\ pc = "done" =>
          /\ taskResult = (IF fileState = "unreadable" THEN "Failed"
                           ELSE IF failOnOutdated /\ someNeedsUpdate THEN "Failed"
                           ELSE IF someErrored THEN "SucceededWithIssues"
                           ELSE "Succeeded")
          /\ (~failOnOutdated /\ fileState # "unreadable") => taskResult # "Failed"

C23_Witness ==
    /\ pc = "done"
    /\ failOnOutdated
    /\ someNeedsUpdate
    /\ someErrored
    /\ taskResult = "Failed"

C23_WitnessNotFailed ==
    /\ pc = "done"
    /\ ~failOnOutdated
    /\ someNeedsUpdate
    /\ ~someErrored
    /\ taskResult = "Succeeded"

OutputNames ==
    { "SubmodulesTotal", "SubmodulesUpToDate", "SubmodulesNeedingUpdate",
      "SubmodulesNeedingUpdateList" }

\* C24: when checkSubmodules has returned, the four output variables are
\* set and SubmodulesTotal is the number of records returned, also with no
\* submodule declared and with no .gitmodules file.
C24_OutputsAlwaysSet ==
    (pc = "done" /\ fileState # "unreadable") =>
        /\ DOMAIN outputs = OutputNames
        /\ outputs.SubmodulesTotal = toString(Len(results))

\* the one Authorization header the precedence selects: ":pat" is OnBhdA==
\* in base64
selectedCredential ==
    IF environment.taskLibToken = "job" THEN "Bearer job"
    ELSE IF environment.myAccessToken = "pat" THEN "Basic OnBhdA=="
    ELSE IF environment.systemAccessToken = "sys" THEN "Bearer sys"
    ELSE ""

C25_WitnessNoToken ==
    /\ noToken
    /\ environment.pullRequestId = "7"
    /\ environment.teamFoundationServerUri # ""
    /\ Len(returns) = 2
    /\ requests = <<>>

(***************************************************************************)
(* run() in a build that may be a pull-request build, with the task input  *)
(* addPullRequestComments                                                   *)
(***************************************************************************)
\* the environment of a build whose API calls would be authorised
BuildEnvironments ==
    { [teamFoundationServerUri |-> "https://dev.azure.com/o/", teamProjectId |-> "p1",
       buildRepositoryName |-> "repo", buildReason |-> reason,
       pullRequestId |-> (IF reason = "PullRequest" THEN "7" ELSE ""),
       systemAccessToken |-> "sys", myAccessToken |-> "", taskLibToken |-> "job"] :
         reason \in { "PullRequest", "IndividualCI" } }

\* return this.environment.buildReason === 'PullRequest'
isPullRequest(env) == env.buildReason = "PullRequest"

BuildConfigTexts ==
    { "[submodule \"libs/a\"]\n\tpath = libs/a\n\turl = https://h/a.git\n"
        \o "[submodule \"b\"]\n\tpath = b\n\turl = https://h/b.git\n\tbranch = dev\n",
      "[submodule \"b\"]\n\tpath = b\n\turl = https://h/b.git\n\tbranch = dev\n" }

PullRequestBuildInit ==
    /\ ParseIdle
    /\ TagIdle
    /\ FormatIdle
    /\ ResolveIdle
    /\ OverlapIdle
    /\ environment \in BuildEnvironments
    /\ addPullRequestComments \in BOOLEAN
    /\ commentContent = ""
    /\ threads = <<>>
    /\ prPc = "off"
    /\ calls = 0
    /\ requests = <<>>
    /\ returns = <<>>
    /\ logs = <<>>
    /\ fileState = "readable"
    /\ content \in BuildConfigTexts
    /\ failOnOutdated = FALSE
    /\ defaultBranch = "main"
    /\ pc = "start"
    /\ submodules = <<>>
    /\ index = 0
    /\ frame = EmptyFrame
    /\ results = <<>>
    /\ facts = <<>>
    /\ queries = <<>>
    /\ summary = EmptyObject
    /\ outputs = EmptyObject
    /\ taskResult = ""

SpecPullRequestBuild == PullRequestBuildInit /\ [][Next]_vars

\* C26: at the end of a run of a pull-request build with PR comments
\* enabled, one guarded post attempt (a call of
\* addPullRequestCommentIfNotExists) has been made for each record that needs
\* update, and none for the other records.
C26_OneAttemptPerOutdatedSubmodule ==
    (pc = "done" /\ isPullRequest(environment) /\ addPullRequestComments) =>
        calls = countNeedsUpdate(results)

opRank(op) == IF op = "ls-tree" THEN 1 ELSE IF op = "ls-remote" THEN 2 ELSE 3

issuedBefore(k, op, i) ==
    \E j \in 1..(k - 1) : queries[j].op = op /\ queries[j].submodule = i

\* the queries issued so far are grouped by submodule in declaration order,
\* each group in the order local tree, remote head, tags, tags; a remote
\* head query follows a local tree query that found a commit, a tag
\* enumeration follows both resolutions having succeeded, and the tags of
\* the latest sha are enumerated after those of the current sha
queriesInOrder ==
    /\ \A k \in 1..Len(queries) :
          LET q == queries[k]
              i == q.submodule
          IN  /\ \A l \in (k + 1)..Len(queries) :
                    \/ queries[l].submodule > i
                    \/ /\ queries[l].submodule = i
                       /\ \/ opRank(queries[l].op) > opRank(q.op)
                          \/ q.op = "ls-remote --tags" /\ queries[l].op = q.op
              /\ q.op = "ls-remote" =>
                    /\ issuedBefore(k, "ls-tree", i)
                    /\ facts[i].tree.kind = "commit"
              /\ q.op = "ls-remote --tags" =>
                    /\ issuedBefore(k, "ls-tree", i)
                    /\ issuedBefore(k, "ls-remote", i)
                    /\ facts[i].tree.kind = "commit"
                    /\ facts[i].head.kind = "commit"
    /\ \A i \in 1..Len(facts) :
          facts[i].tagsLatest # NotIssued => facts[i].tagsCurrent # NotIssued

\* whenever queries for declaration i have been issued, the records of the
\* declarations before i are appended, and those of later declarations are not
queriesAfterEarlierRecords ==
    /\ \A k \in 1..Len(queries) : Len(results) >= queries[k].submodule - 1
    /\ Len(queries) > 0 => Len(results) <= queries[Len(queries)].submodule

\* C27: within a submodule the queries are issued in the order local tree,
\* remote head, tags of the current sha, tags of the latest sha; no tag
\* enumeration before both resolutions succeeded, no remote query after a
\* failed local tree query, and no query for declaration i+1 before the
\* record of declaration i is appended.
C27_QueryOrder == queriesInOrder /\ queriesAfterEarlierRecords

C27_Witness ==
    /\ Len(queries) = 5
    /\ [k \in 1..4 |-> queries[k].op] = <<"ls-tree", "ls-remote", "ls-remote --tags", "ls-remote --tags">>
    /\ \A k \in 1..4 : queries[k].submodule = 1
    /\ queries[5] = [op |-> "ls-tree", submodule |-> 2]
    /\ Len(results) = 2

sign(n) == IF n < 0 THEN -1 ELSE IF n > 0 THEN 1 ELSE 0

\* the sets of tag names a commit of the listings can carry
tagSets == { S \in SUBSET TagNames : Cardinality(S) <= MaxTags }

\* the orders in which the remote can enumerate the tags of a set
orderingsOf(S) ==
    { o \in [1..Cardinality(S) -> S] : \A i, j \in 1..Cardinality(S) : i # j => o[i] # o[j] }

\* for every set of tags, the lists tags.sort returns over all enumeration orders
sortedInEveryOrder == [S \in tagSets |-> { sortTags(o, 1, <<>>) : o \in orderingsOf(S) }]

\* the list returned is what every enumeration order of its tags is sorted to
sameInEveryOrder ==
    sortedInEveryOrder[{ tagsResult[i] : i \in 1..Len(tagsResult) }] = { tagsResult }

\* the comparator over all tag names: distinct names never compare equal
\* both ways round, and a before b before c puts a before c
comparatorStrictOrder ==
    /\ \A a, b \in TagNames :
          (compareTags(a, b) <= 0 /\ compareTags(b, a) <= 0) => a = b
    /\ \A a, b, c \in TagNames :
          (compareTags(a, b) < 0 /\ compareTags(b, c) < 0) => compareTags(a, c) < 0

\* C28 as stated: the list returned depends only on the set of tags at the
\* commit, not on the order the remote enumerates them, the comparator being
\* antisymmetric and transitive over every set of tag names.
C28_OrderIndependent ==
    tPc = "done" => (comparatorStrictOrder /\ sameInEveryOrder)

comparatorSignSymmetric ==
    \A a, b \in TagNames : sign(compareTags(a, b)) = -sign(compareTags(b, a))

\* at most one tag matches the version pattern, or all do with pairwise
\* different (major, minor, patch)
consistentlyCompared(tags) ==
    LET versions == { i \in 1..Len(tags) : isVersionTag(tags[i]) } IN
    \/ Cardinality(versions) <= 1
    \/ /\ Cardinality(versions) = Len(tags)
       /\ \A i, j \in versions : i # j => versionMatch(tags[i]) # versionMatch(tags[j])

\* C28 (amended): compare(a, b) and compare(b, a) have opposite signs for
\* all tag names, and the list returned does not depend on the order the
\* remote enumerates the tags when at most one tag at the commit matches
\* the version pattern or all match it with pairwise different
\* MAJOR.MINOR.PATCH.
C28_OrderIndependentWhenConsistent ==
    tPc = "done" =>
        /\ comparatorSignSymmetric
        /\ consistentlyCompared(tagsResult) => sameInEveryOrder

C28_Witness ==
    /\ tPc = "done"
    /\ Len(tagsResult) = 3
    /\ \A i \in 1..3 : isVersionTag(tagsResult[i])
    /\ consistentlyCompared(tagsResult)
    /\ tagsResult # [k \in 1..3 |-> remoteTags[k].name]

keyLength(key) == IF key = "path" THEN 7 ELSE IF key = "url" THEN 6 ELSE 9

\* the declarations of the text read block by block: a block runs from a
\* [submodule ...] header to the next section header of any kind, its fields
\* are those of the key lines inside it, and it is emitted when it holds a
\* path and a url
RECURSIVE blockDeclarations(_, _, _, _)
blockDeclarations(lines, i, inSub, cur) ==
    LET done == IF inSub /\ truthy(cur, "path") /\ truthy(cur, "url") THEN <<cur>> ELSE <<>> IN
    IF i > Len(lines) THEN done
    ELSE LET t == trim(lines[i]) IN
         IF startsWith(t, "[")
         THEN done \o blockDeclarations(lines, i + 1, startsWith(t, "[submodule "), EmptyObject)
         ELSE IF ~inSub \/ keyOf(t) = "none"
         THEN blockDeclarations(lines, i + 1, inSub, cur)
         ELSE blockDeclarations(lines, i + 1, inSub,
                                setField(cur, keyOf(t), trim(substring(t, keyLength(keyOf(t))))))

\* C29: the declarations parseGitmodules returns are those of the
\* [submodule ...] blocks, each with the path, url and branch of the key
\* lines inside its own block: nothing carries over from an earlier block,
\* key lines before the first submodule header produce no declaration, and
\* key lines after another section header neither alter nor complete one.
C29_FieldsFromOwnBlockOnly ==
    pPc # "init" => parsed = blockDeclarations(split(content, "\n"), 1, FALSE, EmptyObject)

(***************************************************************************)
(* Overlapping calls of addPullRequestCommentIfNotExists, e.g. by two      *)
(* pipeline runs for the same pull request, against one thread collection  *)
(***************************************************************************)
MaxCallers == 2

Callers == 1..MaxCallers

NotReturned == [threw |-> FALSE, value |-> "none"]

\* the environment of the runs: a pull request and a system access token
OverlapEnvironment ==
    [teamFoundationServerUri |-> "https://dev.azure.com/o/", teamProjectId |-> "p1",
     buildRepositoryName |-> "repo", buildReason |-> "PullRequest", pullRequestId |-> "7",
     systemAccessToken |-> "sys", myAccessToken |-> "", taskLibToken |-> ""]

\* the answers to the GET and to the POST of the overlapping calls
OverlapListOutcomes(ts) ==
    { NetworkError, response(200, threadsJson(ts), TRUE, [value |-> ts, count |-> Len(ts)], "") }

OverlapPostOutcomes ==
    { [answer |-> NetworkError, stored |-> FALSE],
      [answer |-> response(200, "{\"id\":1}", TRUE, [id |-> 1], ""), stored |-> TRUE] }

OverlapInit ==
    /\ content = ""
    /\ ParseIdle
    /\ TagIdle
    /\ RunIdle
    /\ FormatIdle
    /\ ResolveIdle
    /\ environment = OverlapEnvironment
    /\ addPullRequestComments = TRUE
    /\ commentContent = CandidateBody
    /\ threads \in InitialThreads
    /\ prPc = "off"
    /\ calls = 0
    /\ requests = <<>>
    /\ returns = <<>>
    /\ logs = <<>>
    /\ callerPc = [c \in Callers |-> "idle"]
    /\ callerRequest = [c \in Callers |-> 0]
    /\ callerReturned = [c \in Callers |-> NotReturned]

\* return value
CallerReturn(c, value) ==
    /\ callerReturned' = [callerReturned EXCEPT ![c] = [threw |-> FALSE, value |-> value]]
    /\ callerPc' = [callerPc EXCEPT ![c] = "returned"]
    /\ callerRequest' = [callerRequest EXCEPT ![c] = 0]

\* the catch block: classify, log, return false
CallerCatch(c, errorMessage, statusCode) ==
    /\ logs' = Append(logs, [classification |-> classify(errorMessage),
                             message |-> errorMessage, statusCode |-> statusCode])
    /\ CallerReturn(c, FALSE)

\* caller c enters addPullRequestCommentIfNotExists and sends the GET
CallerStart(c) ==
    /\ callerPc[c] = "idle"
    /\ calls' = calls + 1
    /\ LET r == openRequest(environment, threadsQueryString(environment), "GET", EmptyObject)
       IN  IF r.sent
           THEN /\ requests' = Append(requests, [call |-> c, request |-> r.request,
                                                 answer |-> Pending, stored |-> FALSE])
                /\ callerRequest' = [callerRequest EXCEPT ![c] = Len(requests) + 1]
                /\ callerPc' = [callerPc EXCEPT ![c] = "listing"]
                /\ UNCHANGED <<logs, callerReturned>>
           ELSE /\ CallerCatch(c, "Failed to get PR comments: " \o r.message, 0)
                /\ UNCHANGED requests
    /\ UNCHANGED <<environment, addPullRequestComments, commentContent, threads, prPc, returns,
                   content, parseVars, tagVars, runVars, formatVars, resolveVars>>

\* the GET of caller c is answered with the threads as they are now; the
\* comments are searched and, when the comment is not there, the POST is sent
CallerListResponds(c) ==
    /\ callerPc[c] = "listing"
    /\ \E o \in OverlapListOutcomes(threads) :
          LET s == settle(o)
              answered == [requests EXCEPT ![callerRequest[c]].answer = o]
          IN  IF ~s.resolved
              THEN /\ requests' = answered
                   /\ CallerCatch(c, "Failed to get PR comments: " \o s.message, statusOf(o))
              ELSE IF hasComment(s.value.value, commentContent)
              THEN /\ requests' = answered
                   /\ CallerReturn(c, FALSE)
                   /\ UNCHANGED logs
              ELSE LET r == openRequest(environment, threadsQueryString(environment), "POST",
                                        commentThread(commentContent))
                   IN  IF r.sent
                       THEN /\ requests' = Append(answered,
                                                  [call |-> c, request |-> r.request,
                                                   answer |-> Pending, stored |-> FALSE])
                            /\ callerRequest' = [callerRequest EXCEPT ![c] = Len(requests) + 1]
                            /\ callerPc' = [callerPc EXCEPT ![c] = "posting"]
                            /\ UNCHANGED <<logs, callerReturned>>
                       ELSE /\ requests' = answered
                            /\ CallerCatch(c, "Failed to add PR comment: " \o r.message, 0)
    /\ UNCHANGED <<environment, addPullRequestComments, commentContent, threads, prPc, calls,
                   returns, content, parseVars, tagVars, runVars, formatVars, resolveVars>>

\* the POST of caller c is answered; the server has stored the thread or has not
CallerPostResponds(c) ==
    /\ callerPc[c] = "posting"
    /\ \E o \in OverlapPostOutcomes :
          LET s == settle(o.answer)
              posted == requests[callerRequest[c]].request.body.comments[1].content
          IN  /\ threads' = IF o.stored THEN Append(threads, threadOf(<<posted>>)) ELSE threads
              /\ requests' = [requests EXCEPT ![callerRequest[c]].answer = o.answer,
                                              ![callerRequest[c]].stored = o.stored]
              /\ IF s.resolved
                 THEN CallerReturn(c, TRUE) /\ UNCHANGED logs
                 ELSE CallerCatch(c, "Failed to add PR comment: " \o s.message,
                                  statusOf(o.answer))
    /\ UNCHANGED <<environment, addPullRequestComments, commentContent, prPc, calls, returns,
                   content, parseVars, tagVars, runVars, formatVars, resolveVars>>

OverlapNext ==
    \E c \in Callers :
        \/ CallerStart(c)
        \/ CallerListResponds(c)
        \/ CallerPostResponds(c)

SpecOverlap == OverlapInit /\ [][OverlapNext]_vars

\* C30: however two or more calls with the same body overlap, the threads
\* end up with at most one comment carrying the body: no two callers both
\* find the body absent and both have it stored.
C30_NoDuplicateUnderOverlap ==
    /\ Cardinality(storedCopies(commentContent)) <= 1
    /\ \A c, d \in Callers :
          (\E k, j \in posts : /\ requests[k].call = c /\ requests[k].stored
                               /\ requests[j].call = d /\ requests[j].stored) => c = d

====
